---- MODULE Spec2Model ----
(***************************************************************************)
(* A model of MultiMCPClient (src/src/bongchun_agent/client.py): the       *)
(* concurrent connection phase (connect_all_servers and the per-server     *)
(* coroutines it gathers), the tool-invocation loop of process_query and   *)
(* cleanup; and of the way AppController (app_controller.py) hands the     *)
(* connection and the requests to the event loop.                          *)
(*                                                                         *)
(* The event loop is single-threaded: a coroutine runs atomically from one *)
(* await to the next, so every action below is one such segment.           *)
(***************************************************************************)
EXTENDS Integers, Sequences, FiniteSets, Bags, TLC

VARIABLES
    server_configs,      \* the mapping handed to connect_all_servers
    connPc,              \* where the caller of connect_all_servers stands
    taskPc,              \* per server: the await its coroutine is suspended at
    sessions,            \* self.sessions: server name -> session
    exit_stack,          \* self.exit_stack: the contexts entered, oldest first
    all_mcp_tools,       \* self.all_mcp_tools: descriptors, in arrival order
    tool_to_server_map,  \* self.tool_to_server_map: tool name -> server name
    log,                 \* the diagnostics printed so far, oldest first
    turnPc,              \* where process_query stands
    request,             \* the arguments of the process_query call
    gemini_tools,        \* the translated tool list of the turn
    sent,                \* the send_message calls of the turn, oldest first
    sendSite,            \* the place the latest send_message was called from
    responses,           \* what the model answered each send_message with
    calls,               \* the call_tool invocations of the turn, oldest first
    tool_results,        \* what each call_tool invocation ended with
    final_text_parts,    \* the text accumulated by the loop
    result,              \* what process_query returned
    cleanupPc,           \* where the caller of cleanup stands
    exc_raised,          \* whether an exit of the running aclose() raised
    trace,               \* history: contexts entered and exited, cleanup calls
    mcp_client,          \* AppController: whether self.mcp_client was created
    stt_service,         \* AppController: whether self.stt_service was created
    response_queue,      \* AppController: the messages put for the GUI
    queries,             \* AppController: the _process_ai_query coroutines
    stt_threads,         \* AppController: the requests whose STT thread runs
    request_count,       \* AppController: the requests made so far
    schema,              \* the argument of a _clean_schema_for_gemini call
    cleaned_schema,      \* what that call returned
    schemaPc,            \* where the caller of the schema functions stands
    chat_session,        \* self.chat_session of the client
    is_first_request,    \* AppController: self.is_first_request
    new_chats            \* history: the calls of start_new_chat_session

connVars == <<server_configs, connPc, taskPc, sessions, exit_stack,
              all_mcp_tools, tool_to_server_map, log>>

turnVars == <<turnPc, request, gemini_tools, sent, sendSite, responses, calls,
              tool_results, final_text_parts, result>>

cleanupVars == <<cleanupPc, exc_raised>>

appVars == <<mcp_client, stt_service, response_queue, queries, stt_threads,
             request_count>>

schemaVars == <<schema, cleaned_schema, schemaPc>>

chatVars == <<chat_session, is_first_request, new_chats>>

vars == <<connVars, turnVars, cleanupVars, trace, appVars, schemaVars, chatVars>>

----------------------------------------------------------------------------
(* JSON values and _clean_schema_for_gemini                                *)

\* A value as Python holds it after json.load, with its type.
Str(s) == [k |-> "str", v |-> s]

Num(n) == [k |-> "int", v |-> n]

Bool(b) == [k |-> "bool", v |-> b]

List(seq) == [k |-> "list", v |-> seq]

Dict(d) == [k |-> "dict", v |-> d]

NoneValue == [k |-> "NoneType", v |-> ""]

\* isinstance(value, types); a bool is an int as well.
IsInstance(value, types) ==
    \/ value.k \in types
    \/ value.k = "bool" /\ "int" \in types

\* Python truthiness.
IsTrue(value) ==
    CASE value.k = "NoneType" -> FALSE
      [] value.k = "bool"     -> value.v
      [] value.k = "int"      -> value.v # 0
      [] value.k = "str"      -> value.v # ""
      [] value.k = "list"     -> value.v # <<>>
      [] value.k = "dict"     -> DOMAIN value.v # {}

\* str(value)
PyStr(value) ==
    CASE value.k = "str"      -> value.v
      [] value.k = "int"      -> ToString(value.v)
      [] value.k = "bool"     -> IF value.v THEN "True" ELSE "False"
      [] value.k = "NoneType" -> "None"

\* schema.get(key)
SchemaGet(d, key) == IF key \in DOMAIN d.v THEN d.v[key] ELSE NoneValue

\* A dict with the one key, and no dict entry at all.
Entry(key, value) == key :> value

NoEntry == << >>

VALID_JSON_SCHEMA_TYPES ==
    {"string", "number", "integer", "boolean", "array", "object"}

\* Step 1: the type of the cleaned schema.
CleanedTypeKeepsAnyStringMutant(d) ==
    IF IsInstance(SchemaGet(d, "type"), {"str"})
    THEN SchemaGet(d, "type").v
    ELSE IF "properties" \in DOMAIN d.v THEN "object" ELSE "string"

CleanedType(d) ==
    IF /\ IsInstance(SchemaGet(d, "type"), {"str"})
       /\ SchemaGet(d, "type").v \in VALID_JSON_SCHEMA_TYPES
    THEN SchemaGet(d, "type").v
    ELSE IF "properties" \in DOMAIN d.v THEN "object" ELSE "string"

\* Step 2: the description entry.
CleanedDescriptionReprMutant(description) ==
    IF description = NoneValue THEN NoEntry
    ELSE Entry("description", Str("'" \o PyStr(description) \o "'"))

CleanedDescription(description) ==
    IF description = NoneValue THEN NoEntry
    ELSE Entry("description",
               IF ~IsInstance(description, {"str"}) THEN Str(PyStr(description))
               ELSE description)

\* Step 3: the enum entry.
IsScalar(val) == IsInstance(val, {"str", "int", "float", "bool"})

ValidEnumUnfilteredMutant(enum_values) == enum_values.v

ValidEnum(enum_values) == SelectSeq(enum_values.v, IsScalar)

CleanedEnum(enum_values, current_type) ==
    IF /\ IsInstance(enum_values, {"list"})
       /\ current_type \in {"string", "number", "integer"}
       /\ ValidEnum(enum_values) # <<>>
    THEN Entry("enum", List(ValidEnum(enum_values)))
    ELSE NoEntry

\* Step 5: the required entry, given the cleaned properties.
ValidRequiredAnyNameMutant(required, cleaned_properties) ==
    LET IsName(req) == IsInstance(req, {"str"})
    IN  SelectSeq(required.v, IsName)

ValidRequired(required, cleaned_properties) ==
    LET IsProperty(req) ==
            IsInstance(req, {"str"}) /\ req.v \in DOMAIN cleaned_properties
    IN  SelectSeq(required.v, IsProperty)

CleanedRequired(required, cleaned_properties) ==
    IF /\ IsInstance(required, {"list"})
       /\ ValidRequired(required, cleaned_properties) # <<>>
    THEN Entry("required", List(ValidRequired(required, cleaned_properties)))
    ELSE NoEntry

\* _clean_schema_for_gemini(schema, tool_name, path): None for a value that
\* is not a dict, else the cleaned dict (which always holds a type).
RECURSIVE CleanSchemaForGemini(_)
CleanSchemaForGemini(d) ==
    IF ~IsInstance(d, {"dict"}) THEN NoneValue
    ELSE
    LET current_type == CleanedType(d)
        properties == SchemaGet(d, "properties")
        cleaned_properties ==
            IF IsInstance(properties, {"dict"})
            THEN [prop_name \in {n \in DOMAIN properties.v :
                                    IsTrue(CleanSchemaForGemini(properties.v[n]))}
                    |-> CleanSchemaForGemini(properties.v[prop_name])]
            ELSE NoEntry
        cleaned_items == CleanSchemaForGemini(SchemaGet(d, "items"))
        cleaned ==
            Entry("type", Str(current_type))
            @@ CleanedDescription(SchemaGet(d, "description"))
            @@ CleanedEnum(SchemaGet(d, "enum"), current_type)
            @@ (IF current_type = "object" /\ DOMAIN cleaned_properties # {}
                THEN Entry("properties", Dict(cleaned_properties))
                     @@ CleanedRequired(SchemaGet(d, "required"), cleaned_properties)
                ELSE NoEntry)
            @@ (IF current_type = "array" /\ IsTrue(cleaned_items)
                THEN Entry("items", cleaned_items)
                ELSE NoEntry)
    IN  IF DOMAIN cleaned # {} THEN Dict(cleaned) ELSE NoneValue

\* No call of the schema functions has been made.
\* The chat session created by __init__, with history=[], and the
\* controller's flag as __init__ sets it.
ChatIdle ==
    /\ chat_session = [id |-> 0, history |-> "empty"]
    /\ is_first_request = TRUE
    /\ new_chats = <<>>

SchemaIdle ==
    /\ schema = NoneValue
    /\ cleaned_schema = NoneValue
    /\ schemaPc = "idle"

----------------------------------------------------------------------------
(* Inputs of the connection phase.                                         *)

\* The keys of the configuration mapping, in insertion order.
ServerNames == <<"fs", "web", "db">>

Servers == {ServerNames[i] : i \in 1..Len(ServerNames)}

\* Position of a server in the configuration mapping.
ConfigIndex(s) == CHOOSE i \in 1..Len(ServerNames) : ServerNames[i] = s

\* The shapes a server entry of the JSON configuration takes.  A dict is a
\* function whose DOMAIN is its key set.
ConfigKinds ==
    { [command |-> "npx"],                          \* transport defaults to stdio
      [transport |-> "stdio", command |-> ""],      \* key present, value empty
      [transport |-> "stdio"],                      \* no command key
      [transport |-> "SSE", url |-> "http://host/sse"],
      [transport |-> "sse", url |-> ""],
      [transport |-> "sse"],
      [transport |-> "websocket", url |-> "ws://host"] }

\* The tool names servers expose.
ToolNames == {"search", "list_directory"}

\* The tool lists a server may answer list_tools with.
ToolLists == { <<>>, <<"search">>, <<"list_directory", "search">> }

\* dict.get(key, default)
Get(d, key, default) == IF key \in DOMAIN d THEN d[key] ELSE default

\* str.lower() on the transport names in use.
Lower(str) ==
    CASE str = "SSE"   -> "sse"
      [] str = "STDIO" -> "stdio"
      [] OTHER         -> str

\* d[key] = value on a dict.
DictSet(d, key, value) ==
    [k \in DOMAIN d \cup {key} |-> IF k = key THEN value ELSE d[k]]

EmptyDict == << >>

\* The session object opened for a server.
Session(s) == [session_of |-> s]

\* A tool descriptor of list_tools: its name, description and inputSchema
\* (origin tells the descriptors of different servers apart).
Tool(s, name, description, inputSchema) ==
    [name |-> name, origin |-> s, description |-> description,
     inputSchema |-> inputSchema]

\* The inputSchema the servers taken in the connection phase supply.
PathSchema ==
    Dict([type |-> Str("object"),
          properties |-> Dict([path |-> Dict([type |-> Str("string")])]),
          required |-> List(<<Str("path")>>)])

\* The descriptor a server supplies for a tool name.
Descriptor(s, name) == Tool(s, name, Str(name), PathSchema)

\* list.extend
Extend(list, more) == list \o more

\* AsyncExitStack: enter_async_context puts the exit of the context it
\* entered on the right end of the stack's callbacks.
PushUnderMutant(stack, context) == <<context>> \o stack

Push(stack, context) == Append(stack, context)

\* The entries of the history.
Entered(context) == [op |-> "enter", context |-> context]

Exited(context) == [op |-> "exit", context |-> context]

CleanupCalled == [op |-> "cleanup"]

----------------------------------------------------------------------------
(* connect_all_servers                                                     *)

\* The transport type the dispatch of connect_all_servers sees.
TransportType(config) == Lower(Get(config, "transport", "stdio"))

\* Whether connect_all_servers appends a coroutine for the entry.
HasTaskAnyTransportMutant(config) ==
    CASE TransportType(config) = "stdio" -> "command" \in DOMAIN config
      [] OTHER                           -> "url" \in DOMAIN config

HasTask(config) ==
    CASE TransportType(config) = "stdio" -> "command" \in DOMAIN config
      [] TransportType(config) = "sse"   -> "url" \in DOMAIN config
      [] OTHER                           -> FALSE

\* The warning printed for an entry that gets no coroutine.
SkipWarning(s, config) ==
    CASE TransportType(config) = "stdio" -> [msg |-> "stdio_no_command", server |-> s]
      [] TransportType(config) = "sse"   -> [msg |-> "sse_no_url", server |-> s]
      [] OTHER -> [msg |-> "unsupported_transport", server |-> s]

\* The warnings of the dispatch loop, in configuration order.
RECURSIVE SkipWarnings(_)
SkipWarnings(i) ==
    IF i > Len(ServerNames) THEN <<>>
    ELSE LET s == ServerNames[i]
         IN  (IF HasTask(server_configs[s]) THEN <<>>
              ELSE <<SkipWarning(s, server_configs[s])>>) \o SkipWarnings(i + 1)

\* The steps of a connection coroutine that lie inside its try block.
TryCoversMissingListToolsMutant(step) ==
    step \in {"transport", "session", "initialize"}

TryCovers(step) ==
    step \in {"transport", "session", "initialize", "list_tools"}

\* A coroutine whose step raised: the except clause prints the failure and
\* the coroutine ends; outside the try the exception leaves the coroutine.
Fail(s, step) ==
    IF TryCovers(step)
    THEN /\ taskPc' = [taskPc EXCEPT ![s] = "failed"]
         /\ log' = Append(log, [msg |-> "connect_failed", server |-> s, reason |-> step])
    ELSE /\ taskPc' = [taskPc EXCEPT ![s] = "raised"]
         /\ log' = log

Settled(pc) == pc \in {"skipped", "returned_early", "done", "failed", "raised"}

\* No process_query call has been made.
TurnIdle ==
    /\ turnPc = "idle"
    /\ request = <<>>
    /\ gemini_tools = <<>>
    /\ sent = <<>>
    /\ sendSite = "none"
    /\ responses = <<>>
    /\ calls = <<>>
    /\ tool_results = <<>>
    /\ final_text_parts = <<>>
    /\ result = ""

\* cleanup has not been called.
CleanupIdle ==
    /\ cleanupPc = "idle"
    /\ exc_raised = FALSE

\* The controller holds a client and has served no request.
AppIdle ==
    /\ mcp_client = TRUE
    /\ stt_service = FALSE
    /\ response_queue = <<>>
    /\ queries = <<>>
    /\ stt_threads = {}
    /\ request_count = 0

Init ==
    /\ server_configs \in [Servers -> ConfigKinds]
    /\ connPc = "idle"
    /\ taskPc = [s \in Servers |-> "none"]
    /\ sessions = EmptyDict
    /\ exit_stack = <<>>
    /\ all_mcp_tools = <<>>
    /\ tool_to_server_map = EmptyDict
    /\ log = <<>>
    /\ TurnIdle
    /\ CleanupIdle
    /\ SchemaIdle
    /\ ChatIdle
    /\ trace = <<>>
    /\ AppIdle

\* The dispatch loop up to the await of asyncio.gather.
ConnectAllServers ==
    /\ connPc = "idle"
    /\ connPc' = "gathering"
    /\ taskPc' = [s \in Servers |->
                    IF HasTask(server_configs[s]) THEN "created" ELSE "skipped"]
    /\ log' = log \o SkipWarnings(1)
    /\ UNCHANGED <<server_configs, sessions, exit_stack, all_mcp_tools,
                   tool_to_server_map>>
    /\ UNCHANGED <<turnVars, cleanupVars, trace, appVars>> /\ UNCHANGED schemaVars
    /\ UNCHANGED chatVars

\* The coroutine's first segment: the command / url check, then the await
\* of the transport context.
TaskStart(s) ==
    /\ taskPc[s] = "created"
    /\ LET config == server_configs[s]
           key == IF TransportType(config) = "stdio" THEN "command" ELSE "url"
       IN  IF Get(config, key, "") = ""
           THEN /\ taskPc' = [taskPc EXCEPT ![s] = "returned_early"]
                /\ log' = Append(log, [msg |-> "no_" \o key, server |-> s])
           ELSE /\ taskPc' = [taskPc EXCEPT ![s] = "await_transport"]
                /\ log' = log
    /\ UNCHANGED <<server_configs, connPc, sessions, exit_stack, all_mcp_tools,
                   tool_to_server_map>>
    /\ UNCHANGED <<turnVars, cleanupVars, trace, appVars>> /\ UNCHANGED schemaVars
    /\ UNCHANGED chatVars

\* exit_stack.enter_async_context(stdio_client(...) / sse_client(...))
EnterTransport(s) ==
    /\ taskPc[s] = "await_transport"
    /\ \E ok \in BOOLEAN :
         IF ok
         THEN /\ exit_stack' = Push(exit_stack, [kind |-> "transport", server |-> s])
              /\ trace' = Append(trace, Entered([kind |-> "transport", server |-> s]))
              /\ taskPc' = [taskPc EXCEPT ![s] = "await_session"]
              /\ log' = log
         ELSE /\ Fail(s, "transport")
              /\ UNCHANGED <<exit_stack, trace>>
    /\ UNCHANGED <<server_configs, connPc, sessions, all_mcp_tools,
                   tool_to_server_map>>
    /\ UNCHANGED <<turnVars, cleanupVars, appVars>> /\ UNCHANGED schemaVars
    /\ UNCHANGED chatVars

\* exit_stack.enter_async_context(ClientSession(read_stream, write_stream))
EnterSession(s) ==
    /\ taskPc[s] = "await_session"
    /\ \E ok \in BOOLEAN :
         IF ok
         THEN /\ exit_stack' = Push(exit_stack, [kind |-> "session", server |-> s])
              /\ trace' = Append(trace, Entered([kind |-> "session", server |-> s]))
              /\ taskPc' = [taskPc EXCEPT ![s] = "await_initialize"]
              /\ log' = log
         ELSE /\ Fail(s, "session")
              /\ UNCHANGED <<exit_stack, trace>>
    /\ UNCHANGED <<server_configs, connPc, sessions, all_mcp_tools,
                   tool_to_server_map>>
    /\ UNCHANGED <<turnVars, cleanupVars, appVars>> /\ UNCHANGED schemaVars
    /\ UNCHANGED chatVars

\* await session.initialize(); self.sessions[server_name] = session
Initialize(s) ==
    /\ taskPc[s] = "await_initialize"
    /\ \E ok \in BOOLEAN :
         IF ok
         THEN /\ sessions' = DictSet(sessions, s, Session(s))
              /\ taskPc' = [taskPc EXCEPT ![s] = "await_list_tools"]
              /\ log' = log
         ELSE /\ Fail(s, "initialize")
              /\ sessions' = sessions
    /\ UNCHANGED <<server_configs, connPc, exit_stack, all_mcp_tools,
                   tool_to_server_map>>
    /\ UNCHANGED <<turnVars, cleanupVars, trace, appVars>> /\ UNCHANGED schemaVars
    /\ UNCHANGED chatVars

\* The collision warnings of the loop over server_tools, given the map the
\* loop starts from.
RECURSIVE CollisionWarnings(_, _, _)
CollisionWarnings(s, names, map) ==
    IF names = <<>> THEN <<>>
    ELSE (IF Head(names) \in DOMAIN map
          THEN <<[msg |-> "collision", tool |-> Head(names),
                  old |-> map[Head(names)], new |-> s]>>
          ELSE <<>>)
         \o CollisionWarnings(s, Tail(names), DictSet(map, Head(names), s))

\* self.tool_to_server_map[tool.name] = server_name
RecordOwnerFirstWinsMutant(map, name, s) ==
    IF name \in DOMAIN map THEN map ELSE DictSet(map, name, s)

RecordOwner(map, name, s) == DictSet(map, name, s)

\* The map after the loop over server_tools.
MergeOwnersSkippedMutant(s, names, map) == map

RECURSIVE MergeOwners(_, _, _)
MergeOwners(s, names, map) ==
    IF names = <<>> THEN map
    ELSE MergeOwners(s, Tail(names), RecordOwner(map, Head(names), s))

\* await session.list_tools(), then the merge into the catalog.
ListTools(s) ==
    /\ taskPc[s] = "await_list_tools"
    /\ \/ \E names \in ToolLists :
            /\ all_mcp_tools' =
                 Extend(all_mcp_tools,
                        [i \in 1..Len(names) |-> Descriptor(s, names[i])])
            /\ tool_to_server_map' = MergeOwners(s, names, tool_to_server_map)
            /\ log' = (log \o <<[msg |-> "tools", server |-> s, names |-> names]>>)
                        \o CollisionWarnings(s, names, tool_to_server_map)
            /\ taskPc' = [taskPc EXCEPT ![s] = "done"]
       \/ /\ Fail(s, "list_tools")
          /\ UNCHANGED <<all_mcp_tools, tool_to_server_map>>
    /\ UNCHANGED <<server_configs, connPc, sessions, exit_stack>>
    /\ UNCHANGED <<turnVars, cleanupVars, trace, appVars>> /\ UNCHANGED schemaVars
    /\ UNCHANGED chatVars

\* When asyncio.gather(*tasks) resumes its caller with the results: once
\* every task it was given is done.
FirstCompletedMutant(pcs) ==
    \/ \A s \in Servers : pcs[s] = "skipped"
    \/ \E s \in Servers : pcs[s] # "skipped" /\ Settled(pcs[s])

AllDone(pcs) == \A s \in Servers : pcs[s] # "skipped" => Settled(pcs[s])

\* asyncio.gather(*tasks): the first exception of a task is raised in the
\* caller at once; without one the caller resumes when every task is done.
GatherResumes ==
    /\ connPc = "gathering"
    /\ IF \E s \in Servers : taskPc[s] = "raised"
       THEN connPc' = "raised"
       ELSE /\ AllDone(taskPc)
            /\ connPc' = "returned"
    /\ log' = IF connPc' = "returned"
              THEN Append(log, [msg |-> "connected_total",
                                count |-> Cardinality(DOMAIN sessions)])
              ELSE log
    /\ UNCHANGED <<server_configs, taskPc, sessions, exit_stack, all_mcp_tools,
                   tool_to_server_map>>
    /\ UNCHANGED <<turnVars, cleanupVars, trace>> /\ UNCHANGED schemaVars
    /\ UNCHANGED chatVars

\* connect_all_servers called on the client itself.
Gather ==
    /\ GatherResumes
    /\ UNCHANGED appVars

----------------------------------------------------------------------------
(* process_query: inputs                                                   *)

\* Python's None, and a present value, for an optional field.
None == <<>>

Some(x) == <<x>>

\* The most function calls the model issues within one turn.
MaxRoundTrips == 2

Query == "list the current directory"

\* The arguments of a call: additional_prompt is None or a prompt text,
\* file_paths is None or a list whose first path is the file named.
Requests ==
    { [query |-> Query, additional_prompt |-> None, file_paths |-> None],
      [query |-> Query, additional_prompt |-> Some("Be brief."), file_paths |-> None],
      [query |-> Query, additional_prompt |-> None, file_paths |-> Some("missing.png")],
      [query |-> Query, additional_prompt |-> None, file_paths |-> Some("notes.txt")],
      [query |-> Query, additional_prompt |-> None, file_paths |-> Some("broken.png")],
      [query |-> Query, additional_prompt |-> Some("Be brief."),
       file_paths |-> Some("photo.png")] }

\* Path.is_file()
IsFile(path) == path # "missing.png"

\* mimetypes.guess_type(path)[0]
GuessType(path) ==
    CASE path \in {"missing.png", "broken.png", "photo.png"} -> Some("image/png")
      [] path = "notes.txt" -> Some("text/plain")
      [] OTHER -> None

\* Whether Image.open(path) / img.verify() accept the file.
ImageVerifies(path) == path = "photo.png"

TextPart(text) == [text |-> Some(text), function_call |-> None]

CallPart(name, args) ==
    [text |-> None, function_call |-> Some([name |-> name, args |-> args])]

\* A part that carries neither text nor a function call (inline data, ...).
OtherPart == [text |-> None, function_call |-> None]

Response(parts) ==
    [raised |-> FALSE, candidates |-> <<[content |-> Some([parts |-> parts])]>>]

\* What send_message may produce: an exception, or a response.
ModelReplies ==
    { [raised |-> TRUE, error |-> "503 model unavailable"],
      [raised |-> FALSE, candidates |-> <<>>],
      [raised |-> FALSE, candidates |-> <<[content |-> None]>>],
      Response(<<>>),
      Response(<<TextPart("Done.")>>),
      Response(<<OtherPart>>),
      Response(<<TextPart("Done."), CallPart("search", None)>>),
      Response(<<CallPart("search", None)>>),
      Response(<<CallPart("list_directory", Some([path |-> "."]))>>),
      Response(<<CallPart("doesNotExist", None)>>),
      Response(<<CallPart("search", Some([path |-> "."])),
                 CallPart("list_directory", None)>>) }

TextContent(text) == [type |-> "text", text |-> text]

\* What call_tool may produce: an exception, or a CallToolResult (with or
\* without an error attribute).
ToolOutcomes ==
    { [raised |-> TRUE, exception |-> "connection closed"],
      [raised |-> FALSE, isError |-> FALSE,
       content |-> <<TextContent("a.txt"), TextContent("b.txt")>>],
      [raised |-> FALSE, isError |-> TRUE, error |-> Some([message |-> "denied"]),
       content |-> <<>>],
      [raised |-> FALSE, isError |-> TRUE, content |-> <<TextContent("denied")>>] }

----------------------------------------------------------------------------
(* process_query                                                           *)

\* Python truthiness of an optional string.
Truthy(opt) == opt # None /\ opt[1] # ""

\* sep.join(parts)
RECURSIVE Join(_, _)
Join(sep, parts) ==
    IF parts = <<>> THEN ""
    ELSE IF Len(parts) = 1 THEN parts[1]
    ELSE parts[1] \o sep \o Join(sep, Tail(parts))

\* The query sent to the model, with the additional prompt in front.
FullQuery(query, additional_prompt) ==
    IF Truthy(additional_prompt)
    THEN additional_prompt[1] \o "\n\n---\n\nUser Request:\n" \o query
    ELSE query

\* FunctionDeclaration(name, description, parameters) for a descriptor
\* (origin: the descriptor it was built from).
FunctionDeclaration(tool) ==
    [name |-> tool.name,
     description |-> PyStr(tool.description),
     parameters |-> IF IsTrue(CleanSchemaForGemini(tool.inputSchema))
                    THEN CleanSchemaForGemini(tool.inputSchema)
                    ELSE NoneValue,
     origin |-> tool.origin]

\* _mcp_tools_to_gemini_tools: the loop over all_mcp_tools.  A name seen
\* before is skipped; the name is marked as seen, and then the declaration
\* is built inside a try whose except clause prints and appends nothing.
\* rejected holds the names for which FunctionDeclaration(...) raises.
RECURSIVE FunctionDeclarations(_, _, _)
FunctionDeclarations(tools, processed_tool_names, rejected) ==
    IF tools = <<>> THEN <<>>
    ELSE IF Head(tools).name \in processed_tool_names
         THEN FunctionDeclarations(Tail(tools), processed_tool_names, rejected)
         ELSE (IF Head(tools).name \in rejected THEN <<>>
               ELSE <<FunctionDeclaration(Head(tools))>>)
              \o FunctionDeclarations(Tail(tools),
                                      processed_tool_names \cup {Head(tools).name},
                                      rejected)

\* [Tool(function_declarations=...)], or [] when nothing is declared.
McpToolsToGeminiTools(tools, rejected) ==
    IF FunctionDeclarations(tools, {}, rejected) = <<>> THEN <<>>
    ELSE <<[function_declarations |-> FunctionDeclarations(tools, {}, rejected)]>>

\* The outcome of the attachment block: an error string to return, or the
\* image part to send ("" and None when there is none).
AttachmentOutcome(file_paths) ==
    IF file_paths = None THEN [error |-> "", image_part |-> None]
    ELSE LET p == file_paths[1]
         IN  IF ~IsFile(p) THEN [error |-> "", image_part |-> None]
             ELSE IF GuessType(p) = None \/ GuessType(p)[1] # "image/png"
                  THEN [error |-> "", image_part |-> None]
             ELSE IF ~ImageVerifies(p)
                  THEN [error |-> "Error: attachment '" \o p
                                   \o "' is not a valid image file.",
                        image_part |-> None]
             ELSE [error |-> "", image_part |-> Some([mime_type |-> "image/png",
                                                      data |-> p])]

\* The first message of the turn: send_message(request_content_parts).
ContentMessage(text, image_part) ==
    [kind |-> "content", text |-> text, image_part |-> image_part, tools |-> None]

\* send_message(Part.from_function_response(...), tools=gemini_tools)
FunctionResponseMessage(name, content) ==
    [kind |-> "function_response", name |-> name, content |-> content,
     tools |-> Some(gemini_tools)]

ToolNotFoundContent(tool_name) ==
    "Error: Tool '" \o tool_name \o "' not found or not configured correctly."

NoSessionContent(tool_name, server) ==
    "Error: Could not find active session for server '" \o server
      \o "' required by tool '" \o tool_name \o "'."

ToolExceptionContent(e) == "Error: Exception during tool execution: " \o e

NoValidResponse == "Error: no valid response was received from the AI."

UnexpectedResponse == "Error: unexpected response format received from the AI: part"

CommunicationError(e) ==
    "Error: a problem occurred while communicating with the AI model - " \o e

\* return value
Return(value) ==
    /\ turnPc' = "returned"
    /\ result' = value
    /\ UNCHANGED <<sent, sendSite, chat_session>>

\* response = self.chat_session.send_message(...): the message joins the
\* history of the chat session and the turn waits for the model.
Send(message, site) ==
    /\ sent' = Append(sent, message)
    /\ sendSite' = site
    /\ chat_session' = [chat_session EXCEPT !.history = "used"]
    /\ turnPc' = "awaiting_model"
    /\ UNCHANGED result

\* process_query reads self.sessions, self.all_mcp_tools and
\* self.tool_to_server_map and assigns none of them.
ForgetsSessionsMutant ==
    /\ sessions' = EmptyDict
    /\ UNCHANGED <<all_mcp_tools, tool_to_server_map>>

ReadsSharedState == UNCHANGED <<sessions, all_mcp_tools, tool_to_server_map>>

\* The entry of process_query up to the first send_message.  The schemas
\* of the catalogs of these turns hold no enum, so FunctionDeclaration(...)
\* accepts every declaration.
ProcessQuery ==
    /\ turnPc = "idle"
    /\ \E req \in Requests :
         /\ request' = req
         /\ gemini_tools' = McpToolsToGeminiTools(all_mcp_tools, {})
         /\ LET outcome == AttachmentOutcome(req.file_paths)
            IN  IF outcome.error # ""
                THEN Return(outcome.error)
                ELSE Send(ContentMessage(FullQuery(req.query, req.additional_prompt),
                                         outcome.image_part), "first")
    /\ UNCHANGED <<responses, calls, tool_results, final_text_parts>>
    /\ ReadsSharedState
    /\ UNCHANGED <<server_configs, connPc, taskPc, exit_stack, log>>
    /\ UNCHANGED <<cleanupVars, trace, appVars>> /\ UNCHANGED schemaVars
    /\ UNCHANGED <<is_first_request, new_chats>>

\* The except clause around the whole body of process_query.
OuterExcept(e) ==
    /\ Return(CommunicationError(e))
    /\ UNCHANGED <<calls, final_text_parts>>

\* The except clause around call_tool and the delivery of its result: an
\* error function response is sent for the call.
InnerExceptPropagatesMutant(tool_name, e) ==
    /\ Return(CommunicationError(e))
    /\ UNCHANGED <<calls, final_text_parts>>

InnerExcept(tool_name, e) ==
    /\ Send(FunctionResponseMessage(tool_name, ToolExceptionContent(e)),
            "tool_exception")
    /\ UNCHANGED <<calls, final_text_parts>>

\* The branch of a function call whose name has no owner.
ToolNotFoundKeyErrorMutant(tool_name) ==
    /\ Return(CommunicationError("'" \o tool_name \o "'"))
    /\ UNCHANGED <<calls, final_text_parts>>

ToolNotFound(tool_name) ==
    /\ Send(FunctionResponseMessage(tool_name, ToolNotFoundContent(tool_name)),
            "tool_not_found")
    /\ UNCHANGED <<calls, final_text_parts>>

\* The branch of a function call whose owner has no session.
NoSession(tool_name, server) ==
    /\ Send(FunctionResponseMessage(tool_name, NoSessionContent(tool_name, server)),
            "no_session")
    /\ UNCHANGED <<calls, final_text_parts>>

\* tool_args_dict: the arguments of the function call, {} when it has none.
ToolArgsDictDroppedMutant(function_call) == EmptyDict

ToolArgsDict(function_call) ==
    IF function_call.args = None THEN EmptyDict ELSE function_call.args[1]

\* await target_session.call_tool(tool_name, arguments=tool_args_dict)
CallTool(server, function_call) ==
    /\ calls' = Append(calls, [server |-> server, session |-> sessions[server],
                               name |-> function_call.name,
                               arguments |-> ToolArgsDict(function_call),
                               at |-> Len(responses')])
    /\ turnPc' = "awaiting_tool"
    /\ UNCHANGED <<sent, sendSite, final_text_parts, result, chat_session>>

\* The dispatch of a function call part.
DispatchCappedMutant(function_call) ==
    IF calls # <<>>
    THEN /\ Return("Error: too many tool calls in one turn.")
         /\ UNCHANGED <<calls, final_text_parts>>
    ELSE IF function_call.name \notin DOMAIN tool_to_server_map
         THEN ToolNotFound(function_call.name)
         ELSE CallTool(tool_to_server_map[function_call.name], function_call)

Dispatch(function_call) ==
    LET tool_name == function_call.name
    IN  IF tool_name \notin DOMAIN tool_to_server_map
        THEN ToolNotFound(tool_name)
        ELSE IF tool_to_server_map[tool_name] \notin DOMAIN sessions
             THEN NoSession(tool_name, tool_to_server_map[tool_name])
             ELSE CallTool(tool_to_server_map[tool_name], function_call)

\* The value the loop leaves with on break.
BreakKeepsQueryMutant(parts) ==
    /\ Return(Join("\n", <<request.query>> \o parts))
    /\ final_text_parts' = <<request.query>> \o parts
    /\ UNCHANGED calls

Break(parts) ==
    /\ Return(Join("\n", parts))
    /\ final_text_parts' = parts
    /\ UNCHANGED calls

\* One pass of the while loop over a response.
ExamineResponseUnexpectedBreaksMutant(r) ==
    IF r.candidates = <<>>
    THEN Break(final_text_parts)
    ELSE LET candidate_content == r.candidates[1].content
         IN  IF candidate_content = None \/ candidate_content[1].parts = <<>>
             THEN IF final_text_parts # <<>>
                  THEN Break(final_text_parts)
                  ELSE Return(NoValidResponse)
                       /\ UNCHANGED <<calls, final_text_parts>>
             ELSE LET latest_response_part == candidate_content[1].parts[1]
                  IN  IF Truthy(latest_response_part.text)
                      THEN Break(Append(final_text_parts,
                                        latest_response_part.text[1]))
                      ELSE IF latest_response_part.function_call # None
                           THEN Dispatch(latest_response_part.function_call[1])
                           ELSE Break(final_text_parts)

ExamineResponse(r) ==
    IF r.candidates = <<>>
    THEN Break(final_text_parts)
    ELSE LET candidate_content == r.candidates[1].content
         IN  IF candidate_content = None \/ candidate_content[1].parts = <<>>
             THEN IF final_text_parts # <<>>
                  THEN Break(final_text_parts)
                  ELSE Return(NoValidResponse)
                       /\ UNCHANGED <<calls, final_text_parts>>
             ELSE LET latest_response_part == candidate_content[1].parts[1]
                  IN  IF Truthy(latest_response_part.text)
                      THEN Break(Append(final_text_parts,
                                        latest_response_part.text[1]))
                      ELSE IF latest_response_part.function_call # None
                           THEN Dispatch(latest_response_part.function_call[1])
                           ELSE IF final_text_parts # <<>>
                                THEN Break(final_text_parts)
                                ELSE Return(UnexpectedResponse)
                                     /\ UNCHANGED <<calls, final_text_parts>>

\* The debug print that follows the delivery of a tool result reads
\* response.candidates[0].content.parts[0] when there are candidates.
DebugPrintError(r) ==
    IF r.candidates = <<>> THEN ""
    ELSE IF r.candidates[1].content = None
         THEN "'NoneType' object has no attribute 'parts'"
    ELSE IF r.candidates[1].content[1].parts = <<>>
         THEN "list index out of range"
    ELSE ""

\* The exception, if any, that the send_message statement and the print
\* after it end with ("" when they complete).
DeliveryError(r, site) ==
    IF r.raised THEN r.error
    ELSE IF site \in {"tool_result", "tool_exception"} THEN DebugPrintError(r)
    ELSE ""

FirstPartIsCall(r) ==
    /\ ~r.raised
    /\ r.candidates # <<>>
    /\ r.candidates[1].content # None
    /\ r.candidates[1].content[1].parts # <<>>
    /\ ~Truthy(r.candidates[1].content[1].parts[1].text)
    /\ r.candidates[1].content[1].parts[1].function_call # None

\* The function calls the loop extracted from the responses so far.
CallIndexes(rs) == {i \in 1..Len(rs) : FirstPartIsCall(rs[i])}

\* The model answers the pending send_message; process_query runs on to
\* its next send_message, its call_tool or its return.
ModelReply ==
    /\ turnPc = "awaiting_model"
    /\ \E r \in ModelReplies :
         /\ FirstPartIsCall(r) => Cardinality(CallIndexes(responses)) < MaxRoundTrips
         /\ responses' = Append(responses, r)
         /\ IF DeliveryError(r, sendSite) # ""
            THEN IF sendSite = "tool_result"
                 THEN InnerExcept(calls[Len(calls)].name, DeliveryError(r, sendSite))
                 ELSE OuterExcept(DeliveryError(r, sendSite))
            ELSE ExamineResponse(r)
    /\ UNCHANGED <<request, gemini_tools, tool_results>>
    /\ ReadsSharedState
    /\ UNCHANGED <<server_configs, connPc, taskPc, exit_stack, log>>
    /\ UNCHANGED <<cleanupVars, trace, appVars>> /\ UNCHANGED schemaVars
    /\ UNCHANGED <<is_first_request, new_chats>>

\* result_content of a CallToolResult.
ResultContent(tool_name, mcp_result) ==
    IF mcp_result.isError
    THEN "[Error executing tool '" \o tool_name \o "': "
           \o (IF mcp_result.error # None THEN mcp_result.error[1].message
               ELSE "Unknown error") \o "]"
    ELSE IF mcp_result.content # <<>>
         THEN Join("\n", [i \in 1..Len(mcp_result.content) |->
                            mcp_result.content[i].text])
         ELSE "[Tool executed successfully, no specific content returned]"

\* The exception, if any, that call_tool and the reading of its result end
\* with ("" when a result content is built).
ToolError(o) ==
    IF o.raised THEN o.exception
    ELSE IF o.isError /\ "error" \notin DOMAIN o
         THEN "'CallToolResult' object has no attribute 'error'"
    ELSE ""

\* call_tool completes; its result, or the exception, is delivered to the
\* model as a function response.
ToolReply ==
    /\ turnPc = "awaiting_tool"
    /\ \E o \in ToolOutcomes :
         LET tool_name == calls[Len(calls)].name
         IN  /\ tool_results' = Append(tool_results, o)
             /\ IF ToolError(o) # ""
                THEN InnerExcept(tool_name, ToolError(o))
                ELSE /\ Send(FunctionResponseMessage(tool_name,
                                                     ResultContent(tool_name, o)),
                             "tool_result")
                     /\ UNCHANGED <<calls, final_text_parts>>
    /\ UNCHANGED <<request, gemini_tools, responses>>
    /\ ReadsSharedState
    /\ UNCHANGED <<server_configs, connPc, taskPc, exit_stack, log>>
    /\ UNCHANGED <<cleanupVars, trace, appVars>> /\ UNCHANGED schemaVars
    /\ UNCHANGED <<is_first_request, new_chats>>

ConnectNext ==
    \/ ConnectAllServers
    \/ \E s \in Servers : TaskStart(s)
    \/ \E s \in Servers : EnterTransport(s)
    \/ \E s \in Servers : EnterSession(s)
    \/ \E s \in Servers : Initialize(s)
    \/ \E s \in Servers : ListTools(s)
    \/ Gather

Next == ConnectNext

Spec == Init /\ [][Next]_vars

----------------------------------------------------------------------------
(* Turns against a client whose connection phase is over.                  *)

\* Two servers connected, both exposing "search"; the third failed to open
\* its transport.
TwoConnected ==
    /\ server_configs = [fs |-> [command |-> "npx"],
                         web |-> [transport |-> "SSE", url |-> "http://host/sse"],
                         db |-> [command |-> "npx"]]
    /\ connPc = "returned"
    /\ taskPc = [fs |-> "done", web |-> "done", db |-> "failed"]
    /\ sessions = [fs |-> Session("fs"), web |-> Session("web")]
    /\ exit_stack = <<[kind |-> "transport", server |-> "fs"],
                      [kind |-> "transport", server |-> "web"],
                      [kind |-> "session", server |-> "fs"],
                      [kind |-> "session", server |-> "web"]>>
    /\ all_mcp_tools = <<Descriptor("fs", "list_directory"), Descriptor("fs", "search"),
                         Descriptor("web", "search")>>
    /\ tool_to_server_map = [list_directory |-> "fs", search |-> "web"]
    /\ log = <<[msg |-> "connect_failed", server |-> "db", reason |-> "transport"],
               [msg |-> "tools", server |-> "fs", names |-> <<"list_directory", "search">>],
               [msg |-> "tools", server |-> "web", names |-> <<"search">>],
               [msg |-> "collision", tool |-> "search", old |-> "fs", new |-> "web"],
               [msg |-> "connected_total", count |-> 2]>>
    /\ trace = [i \in 1..Len(exit_stack) |-> Entered(exit_stack[i])]

\* No entry of the configuration led to a connection attempt.
NoneConnected ==
    /\ server_configs = [s \in Servers |-> [transport |-> "stdio"]]
    /\ connPc = "returned"
    /\ taskPc = [s \in Servers |-> "skipped"]
    /\ sessions = EmptyDict
    /\ exit_stack = <<>>
    /\ all_mcp_tools = <<>>
    /\ tool_to_server_map = EmptyDict
    /\ log = <<[msg |-> "stdio_no_command", server |-> "fs"],
               [msg |-> "stdio_no_command", server |-> "web"],
               [msg |-> "stdio_no_command", server |-> "db"],
               [msg |-> "connected_total", count |-> 0]>>
    /\ trace = <<>>

TurnInit ==
    /\ TwoConnected \/ NoneConnected
    /\ TurnIdle
    /\ CleanupIdle
    /\ SchemaIdle
    /\ ChatIdle
    /\ AppIdle

TurnNext ==
    \/ ProcessQuery
    \/ ModelReply
    \/ ToolReply

SpecTurn == TurnInit /\ [][TurnNext]_vars

----------------------------------------------------------------------------
(* cleanup                                                                 *)

\* The most calls of cleanup on one client.
MaxCleanups == 2

\* The calls of cleanup made so far.
CleanupCalls == Cardinality({i \in 1..Len(trace) : trace[i].op = "cleanup"})

\* AsyncExitStack.__aexit__ takes the callback to run from the right end of
\* the stack's callbacks.
TopOldestFirstMutant(stack) == 1

Top(stack) == Len(stack)

\* The callbacks left once the one at position i is taken.
Remove(stack, i) == SubSeq(stack, 1, i - 1) \o SubSeq(stack, i + 1, Len(stack))

\* How aclose() ends once no callback is left: an exception raised by an
\* exit is raised again after the last exit.
AcloseRaisesWhenEmptyMutant(raised) == "raised"

AcloseEnds(raised) == IF raised THEN "raised" ELSE "returned"

\* One pass of the loop of AsyncExitStack.__aexit__, up to the await of the
\* exit it took; without a callback left aclose() ends and cleanup prints
\* its last line.
CloseNext(raised, entries, printed) ==
    IF exit_stack = <<>>
    THEN /\ cleanupPc' = AcloseEnds(raised)
         /\ exc_raised' = FALSE
         /\ exit_stack' = exit_stack
         /\ trace' = trace \o entries
         /\ log' = IF AcloseEnds(raised) = "returned"
                   THEN Append(log \o printed, [msg |-> "cleanup_done"])
                   ELSE log \o printed
    ELSE /\ cleanupPc' = "closing"
         /\ exc_raised' = raised
         /\ exit_stack' = Remove(exit_stack, Top(exit_stack))
         /\ trace' = (trace \o entries) \o <<Exited(exit_stack[Top(exit_stack)])>>
         /\ log' = log \o printed

\* cleanup(): the first print, then exit_stack.aclose().  The caller taken
\* here calls it before or after connect_all_servers, not while that runs,
\* and calls it again only once the earlier call is over.
Cleanup ==
    /\ connPc # "gathering"
    /\ cleanupPc # "closing"
    /\ CleanupCalls < MaxCleanups
    /\ CloseNext(FALSE, <<CleanupCalled>>, <<[msg |-> "cleanup_start"]>>)
    /\ UNCHANGED <<server_configs, connPc, taskPc, sessions, all_mcp_tools,
                   tool_to_server_map>>
    /\ UNCHANGED <<turnVars, appVars, schemaVars, chatVars>>

\* The exit awaited by aclose() completes, or raises; aclose() goes on with
\* the callback that is on top by then.
ExitCompletes ==
    /\ cleanupPc = "closing"
    /\ \E ok \in BOOLEAN : CloseNext(exc_raised \/ ~ok, <<>>, <<>>)
    /\ UNCHANGED <<server_configs, connPc, taskPc, sessions, all_mcp_tools,
                   tool_to_server_map>>
    /\ UNCHANGED <<turnVars, appVars, schemaVars, chatVars>>

\* A client configured with two servers that are attempted and one entry
\* that is skipped.
CleanupInit ==
    /\ Init
    /\ server_configs = [fs |-> [command |-> "npx"],
                         web |-> [transport |-> "SSE", url |-> "http://host/sse"],
                         db |-> [transport |-> "stdio"]]

CleanupNext ==
    \/ ConnectNext
    \/ Cleanup
    \/ ExitCompletes

SpecCleanup == CleanupInit /\ [][CleanupNext]_vars

\* A server whose process neither answers nor ends.
StuckServer == "web"

\* The context whose exit aclose() is awaiting.
Awaited == trace[Len(trace)].context

\* The exit of a context of a server that answers.
ResponsiveExitCompletes ==
    /\ ExitCompletes
    /\ Awaited.server # StuckServer

\* cleanup awaits exit_stack.aclose() and nothing else: no timeout and no
\* cancellation bound the exit it is suspended on.  The event loop resumes
\* it when that exit is over, which for a server that answers happens in
\* the end; nothing in the program makes it happen for a stuck one.
SpecCleanupFair ==
    /\ CleanupInit
    /\ [][CleanupNext]_vars
    /\ WF_vars(ResponsiveExitCompletes)

----------------------------------------------------------------------------
(* AppController (src/src/bongchun_agent/app_controller.py).  Its methods  *)
(* run on the GUI thread and on STT threads; the coroutines they hand to   *)
(* run_coroutine_threadsafe run on the event loop, one segment at a time,  *)
(* next to the connection coroutines.  process_query is taken here as the  *)
(* event loop sees it: send_message is a blocking call, so it runs without *)
(* a break up to the await of call_tool or up to its return.               *)

\* The most requests made to the controller.
MaxRequests == 2

\* The most calls of start_new_chat on one client.
MaxNewChats == 1

\* self.gemini_client.chats.create(model=..., history=[])
ChatCreated == [id |-> chat_session.id + 1, history |-> "empty"]

\* The body of start_new_chat: chats.create returns a chat session, which
\* replaces the client's and True is returned, or it raises, which is
\* printed, and False is returned.
NewChat(created) ==
    /\ chat_session' = IF created THEN ChatCreated ELSE chat_session
    /\ log' = Append(log, [msg |-> IF created THEN "new_chat_started"
                                   ELSE "new_chat_failed"])

\* self.prompt_manager.default_system_prompt
DefaultSystemPrompt == "You are a helpful assistant."

\* A message on the response queue, with the request it belongs to (0 for
\* the connection report).
Message(text, req) == [text |-> text, req |-> req]

Put(messages) == response_queue' = response_queue \o messages

\* asyncio.run_coroutine_threadsafe(self._process_ai_query(...), self.loop)
Schedule(req) ==
    queries' = Append(queries, [req |-> req, pc |-> "scheduled"])

\* _connect_mcp_servers after connect_all_servers: the report to the GUI.
ConnectionReport ==
    IF connPc' = "raised"
    THEN <<Message("System: error: MCP server connection failed", 0)>>
    ELSE IF DOMAIN sessions = {}
         THEN <<Message("System: warning: no MCP server connected", 0)>>
         ELSE <<Message("System: MCP servers connected", 0)>>

\* The coroutine scheduled by __init__: the await of connect_all_servers
\* resumes and the report is put.
ConnectMcpServers ==
    /\ GatherResumes
    /\ Put(ConnectionReport)
    /\ UNCHANGED <<mcp_client, stt_service, queries, stt_threads, request_count>>

\* process_user_request
ProcessUserRequest ==
    /\ request_count < MaxRequests
    /\ request_count' = request_count + 1
    /\ IF ~mcp_client
       THEN /\ Put(<<Message("System: error: MCP client not ready", request_count'),
                     Message("System: Buttons enabled", request_count')>>)
            /\ UNCHANGED queries
       ELSE /\ Put(<<Message("User", request_count')>>)
            /\ Schedule(request_count')
    /\ UNCHANGED <<mcp_client, stt_service, stt_threads>>
    /\ UNCHANGED <<connVars, turnVars, cleanupVars, trace>> /\ UNCHANGED schemaVars
    /\ UNCHANGED chatVars

\* handle_voice_input
HandleVoiceInput ==
    /\ request_count < MaxRequests
    /\ request_count' = request_count + 1
    /\ IF ~stt_service
       THEN /\ Put(<<Message("System: error: STT service not ready", request_count')>>)
            /\ UNCHANGED stt_threads
       ELSE /\ Put(<<Message("System: Show recording status", request_count'),
                     Message("System: Buttons disabled", request_count')>>)
            /\ stt_threads' = stt_threads \cup {request_count'}
    /\ UNCHANGED <<mcp_client, stt_service, queries>>
    /\ UNCHANGED <<connVars, turnVars, cleanupVars, trace>> /\ UNCHANGED schemaVars
    /\ UNCHANGED chatVars

\* What recording and transcription end with.
SttOutcomes == {"no_audio", "not_recognized", "raised", "recognized"}

\* _run_stt_in_thread
RunSttInThread(req) ==
    /\ req \in stt_threads
    /\ stt_threads' = stt_threads \ {req}
    /\ \E outcome \in SttOutcomes :
         IF outcome = "recognized"
         THEN /\ Put(<<Message("User", req),
                       Message("System: Hide recording status", req)>>)
              /\ Schedule(req)
         ELSE /\ Put(<<Message(CASE outcome = "no_audio" ->
                                     "System: recording failed or cancelled"
                                  [] outcome = "not_recognized" ->
                                     "System: speech not recognized"
                                  [] OTHER -> "System: voice input error", req),
                       Message("System: Buttons enabled", req),
                       Message("System: Hide recording status", req)>>)
              /\ UNCHANGED queries
    /\ UNCHANGED <<mcp_client, stt_service, request_count>>
    /\ UNCHANGED <<connVars, turnVars, cleanupVars, trace>> /\ UNCHANGED schemaVars
    /\ UNCHANGED chatVars

\* Whether process_query can reach the await of call_tool: some tool has an
\* owner with a session.
CanCallTool ==
    \E t \in DOMAIN tool_to_server_map : tool_to_server_map[t] \in DOMAIN sessions

\* The finally clause of _process_ai_query.
Finally(req) ==
    <<Message("System: Clear attachment label", req),
      Message("System: Buttons enabled", req)>>

\* process_query returns and _process_ai_query puts the answer.
TurnReturns(i, before) ==
    /\ queries' = [queries EXCEPT ![i].pc = "done"]
    /\ Put((before \o <<Message("AI", queries[i].req)>>) \o Finally(queries[i].req))

\* The first segment of a _process_ai_query coroutine: process_query
\* returns, or reaches the await of call_tool, or the coroutine fails
\* before it.  The event loop starts the coroutines in the order they were
\* handed to it, the connection coroutine of __init__ first.
ProcessAiQuery(i) ==
    /\ queries[i].pc = "scheduled"
    /\ \A j \in 1..(i - 1) : queries[j].pc # "scheduled"
    /\ mcp_client => connPc # "idle"
    /\ IF ~mcp_client
       THEN /\ queries' = [queries EXCEPT ![i].pc = "done"]
            /\ Put(<<Message("System: error: MCP client not ready", queries[i].req),
                     Message("System: Buttons enabled", queries[i].req)>>)
            /\ UNCHANGED <<chat_session, is_first_request>>
       ELSE /\ is_first_request' = (is_first_request /\ DefaultSystemPrompt = "")
            /\ \/ /\ TurnReturns(i, <<Message("System: AI processing", queries[i].req)>>)
                  /\ \E sent_any \in BOOLEAN :
                       chat_session' = IF sent_any
                                       THEN [chat_session EXCEPT !.history = "used"]
                                       ELSE chat_session
               \/ /\ CanCallTool
                  /\ queries' = [queries EXCEPT ![i].pc = "awaiting_tool"]
                  /\ Put(<<Message("System: AI processing", queries[i].req)>>)
                  /\ chat_session' = [chat_session EXCEPT !.history = "used"]
               \/ /\ queries' = [queries EXCEPT ![i].pc = "done"]
                  /\ Put(<<Message("System: AI processing", queries[i].req),
                           Message("System: error during AI processing", queries[i].req)>>
                         \o Finally(queries[i].req))
                  /\ UNCHANGED chat_session
    /\ UNCHANGED <<mcp_client, stt_service, stt_threads, request_count>>
    /\ UNCHANGED <<connVars, turnVars, cleanupVars, trace>> /\ UNCHANGED schemaVars
    /\ UNCHANGED new_chats

\* The last call_tool of the turn completes and process_query runs on to
\* its return (an earlier call_tool leaves the coroutine at the same await):
\* the function response goes to the chat session the client has by then.
ToolCallCompletes(i) ==
    /\ queries[i].pc = "awaiting_tool"
    /\ TurnReturns(i, <<>>)
    /\ chat_session' = [chat_session EXCEPT !.history = "used"]
    /\ UNCHANGED <<mcp_client, stt_service, stt_threads, request_count>>
    /\ UNCHANGED <<connVars, turnVars, cleanupVars, trace>> /\ UNCHANGED schemaVars
    /\ UNCHANGED <<is_first_request, new_chats>>

\* start_new_chat_session with _start_new_chat, the GUI being set: the
\* value start_new_chat returns is not read.
StartNewChatSession ==
    /\ Len(new_chats) < MaxNewChats
    /\ IF ~mcp_client
       THEN /\ Put(<<Message("System: Clear chat display", 0),
                     Message("System: error: new chat failed - no client", 0)>>)
            /\ new_chats' = Append(new_chats, [returned |-> FALSE,
                                               before |-> chat_session,
                                               after |-> chat_session,
                                               is_first_request |-> is_first_request])
            /\ UNCHANGED <<chat_session, is_first_request, log>>
       ELSE /\ \E created \in BOOLEAN : NewChat(created)
            /\ is_first_request' = TRUE
            /\ Put(<<Message("System: Clear chat display", 0)>>)
            /\ new_chats' = Append(new_chats, [returned |-> TRUE,
                                               before |-> chat_session,
                                               after |-> chat_session',
                                               is_first_request |-> TRUE])
    /\ UNCHANGED <<mcp_client, stt_service, queries, stt_threads, request_count>>
    /\ UNCHANGED <<server_configs, connPc, taskPc, sessions, exit_stack,
                   all_mcp_tools, tool_to_server_map>>
    /\ UNCHANGED <<turnVars, cleanupVars, trace>> /\ UNCHANGED schemaVars

\* A controller after __init__: the services it could create, and, with a
\* client, the connection coroutine handed to the event loop.  One server
\* of the configuration is attempted.
AppInit ==
    /\ server_configs = [fs |-> [command |-> "npx"],
                         web |-> [transport |-> "sse"],
                         db |-> [transport |-> "stdio"]]
    /\ connPc = "idle"
    /\ taskPc = [s \in Servers |-> "none"]
    /\ sessions = EmptyDict
    /\ exit_stack = <<>>
    /\ all_mcp_tools = <<>>
    /\ tool_to_server_map = EmptyDict
    /\ log = <<>>
    /\ TurnIdle
    /\ CleanupIdle
    /\ SchemaIdle
    /\ ChatIdle
    /\ trace = <<>>
    /\ mcp_client \in BOOLEAN
    /\ stt_service \in BOOLEAN
    /\ response_queue = <<>>
    /\ queries = <<>>
    /\ stt_threads = {}
    /\ request_count = 0

AppNext ==
    \/ mcp_client /\ ConnectAllServers
    \/ \E s \in Servers : TaskStart(s)
    \/ \E s \in Servers : EnterTransport(s)
    \/ \E s \in Servers : EnterSession(s)
    \/ \E s \in Servers : Initialize(s)
    \/ \E s \in Servers : ListTools(s)
    \/ ConnectMcpServers
    \/ ProcessUserRequest
    \/ HandleVoiceInput
    \/ \E req \in 1..MaxRequests : RunSttInThread(req)
    \/ \E i \in 1..Len(queries) : ProcessAiQuery(i)
    \/ \E i \in 1..Len(queries) : ToolCallCompletes(i)
    \/ StartNewChatSession

SpecApp == AppInit /\ [][AppNext]_vars

----------------------------------------------------------------------------
(* The life of one client: connection, cleanup, a new chat and a turn.     *)

\* The calls of start_new_chat made so far.
NewChats ==
    Cardinality({i \in 1..Len(log) :
                     log[i].msg \in {"new_chat_started", "new_chat_failed"}})

\* start_new_chat() called on the client itself.
StartNewChatResetsClientMutant ==
    /\ NewChats < MaxNewChats
    /\ log' = Append(log, [msg |-> "new_chat_started"])
    /\ chat_session' = ChatCreated
    /\ sessions' = EmptyDict
    /\ exit_stack' = <<>>
    /\ UNCHANGED <<server_configs, connPc, taskPc, all_mcp_tools, tool_to_server_map>>
    /\ UNCHANGED <<turnVars, cleanupVars, trace, appVars>> /\ UNCHANGED schemaVars
    /\ UNCHANGED <<is_first_request, new_chats>>

StartNewChat ==
    /\ NewChats < MaxNewChats
    /\ \E created \in BOOLEAN : NewChat(created)
    /\ UNCHANGED <<server_configs, connPc, taskPc, sessions, exit_stack,
                   all_mcp_tools, tool_to_server_map>>
    /\ UNCHANGED <<turnVars, cleanupVars, trace, appVars>> /\ UNCHANGED schemaVars
    /\ UNCHANGED <<is_first_request, new_chats>>

\* A client configured with one server that is attempted.
LifeInit ==
    /\ Init
    /\ server_configs = [fs |-> [command |-> "npx"],
                         web |-> [transport |-> "sse"],
                         db |-> [transport |-> "stdio"]]

\* The caller taken here makes its other calls once connect_all_servers
\* has returned: it runs a turn on the client as the connection left it, or
\* it calls cleanup and start_new_chat.
LifeNext ==
    \/ ConnectNext
    \/ connPc = "returned" /\ turnPc = "idle" /\ Cleanup
    \/ ExitCompletes
    \/ connPc = "returned" /\ turnPc = "idle" /\ StartNewChat
    \/ connPc = "returned" /\ cleanupPc = "idle" /\ NewChats = 0 /\ TurnNext

SpecLife == LifeInit /\ [][LifeNext]_vars

----------------------------------------------------------------------------
(* A turn on a client whose cleanup is over.                               *)

\* The client with two connected servers, before cleanup is called.
ReuseInit ==
    /\ TwoConnected
    /\ TurnIdle
    /\ CleanupIdle
    /\ SchemaIdle
    /\ ChatIdle
    /\ AppIdle

\* The caller taken here calls cleanup, waits for it to end, and then
\* calls process_query on the same client.
ReuseNext ==
    \/ turnPc = "idle" /\ Cleanup
    \/ ExitCompletes
    \/ cleanupPc \in {"returned", "raised"} /\ TurnNext

SpecReuse == ReuseInit /\ [][ReuseNext]_vars

----------------------------------------------------------------------------
(* Calls of _clean_schema_for_gemini on the schemas of a bounded set, and   *)
(* of _mcp_tools_to_gemini_tools on the catalogs of a bounded set.         *)

\* The deepest nesting of a schema below the root of an input schema.
MaxDepth == 2

\* A key that the dict does not hold.
Absent == [k |-> "absent", v |-> ""]

\* The dict made of the fields that are present.
Schema(fields) ==
    Dict([key \in {f \in DOMAIN fields : fields[f] # Absent} |-> fields[key]])

\* The values tried for the keys of a schema.
TypeValues ==
    {Absent, Str("string"), Str("number"), Str("integer"), Str("boolean"),
     Str("array"), Str("object"), Str("null"),
     List(<<Str("string"), Str("null")>>)}

DescriptionValues == {Absent, Str("a path"), Str(""), Num(3), NoneValue}

EnumValues ==
    {Absent, List(<<Str("a"), Num(1)>>),
     List(<<NoneValue, Str("a"), Bool(TRUE)>>),
     List(<<NoneValue, List(<<>>)>>), List(<<>>), Str("a")}

RequiredValues ==
    {Absent, List(<<Str("p")>>), List(<<Str("zz"), Str("p"), Num(1)>>),
     List(<<Str("zz")>>), List(<<>>), Str("p")}

TitleValues == {Absent, Str("Arguments")}

\* Schemas without a schema inside.
ScalarSchemas ==
    {Schema([type |-> t, description |-> d, enum |-> e, title |-> x]) :
        t \in TypeValues, d \in DescriptionValues, e \in EnumValues,
        x \in TitleValues}

\* The values tried for a property and for items that hold no schema.
Leaves ==
    {Str("x"),
     Schema([type |-> Str("string"), enum |-> List(<<Str("a"), Num(1)>>)]),
     Schema([description |-> Num(3)]),
     Schema([type |-> Str("null"), title |-> Str("Arguments")]),
     Schema([type |-> Str("object"), required |-> List(<<Str("p")>>)]),
     Schema([type |-> Str("array")])}

\* The values tried for a property and for items, with at most depth
\* schemas nested below them.
RECURSIVE SubSchemas(_)
SubSchemas(depth) ==
    IF depth = 0 THEN Leaves
    ELSE Leaves
         \cup {Schema([type |-> t, properties |-> Dict([p |-> s]),
                       required |-> List(<<Str("p"), Str("zz")>>)]) :
                  t \in {Absent, Str("object")}, s \in SubSchemas(depth - 1)}
         \cup {Schema([type |-> Str("array"), items |-> s,
                       default |-> List(<<>>)]) :
                  s \in SubSchemas(depth - 1)}

PropertiesValues ==
    {Absent, Dict(NoEntry), List(<<>>)}
    \cup {Dict([p |-> s]) : s \in SubSchemas(MaxDepth - 1)}
    \cup {Dict([p |-> s, q |-> t]) : s \in SubSchemas(MaxDepth - 1), t \in Leaves}

ObjectSchemas ==
    {Schema([type |-> t, properties |-> p, required |-> r]) :
        t \in {Absent, Str("object"), Str("string"), Str("array"), Str("null")},
        p \in PropertiesValues, r \in RequiredValues}

ArraySchemas ==
    {Schema([type |-> t, items |-> i, enum |-> e]) :
        t \in {Absent, Str("array"), Str("string"), Str("object")},
        i \in {Absent} \cup SubSchemas(MaxDepth - 1),
        e \in {Absent, List(<<Str("a")>>)}}

\* Arguments that are not a dict.
NotDicts == {NoneValue, Str("{}"), List(<<>>), Num(0), Bool(TRUE)}

Schemas == ScalarSchemas \cup ObjectSchemas \cup ArraySchemas \cup NotDicts

\* The descriptions and inputSchemas tried for a tool.
ToolShapes ==
    { [description |-> Str("Lists a directory."), inputSchema |-> NoneValue],
      [description |-> Str("Lists a directory."), inputSchema |-> Str("{}")],
      [description |-> NoneValue,
       inputSchema |-> Schema([type |-> Str("object"),
                               properties |-> Dict([path |-> Schema([type |-> Str("string")])]),
                               title |-> Str("Arguments")])],
      [description |-> Str("Searches."),
       inputSchema |-> Schema([type |-> Str("object"),
                               properties |-> Dict([level |-> Schema([type |-> Str("integer"),
                                                                      enum |-> List(<<Num(1), Num(2)>>)])])])] }

\* The tool lists a server may answer list_tools with.
ToolsOf(s) ==
    {<<>>}
    \cup {<<Tool(s, "search", a.description, a.inputSchema)>> : a \in ToolShapes}
    \cup {<<Tool(s, "list_directory", a.description, a.inputSchema),
            Tool(s, "search", b.description, b.inputSchema)>> :
             a \in ToolShapes, b \in ToolShapes}

\* The names of a tool list.
Names(tools) == [i \in 1..Len(tools) |-> tools[i].name]

\* A client after connect_all_servers: fs and web connected, in that
\* order, with the tool lists given; db failed to open its transport.
Catalogued(fs_tools, web_tools) ==
    /\ server_configs = [fs |-> [command |-> "npx"],
                         web |-> [transport |-> "SSE", url |-> "http://host/sse"],
                         db |-> [command |-> "npx"]]
    /\ connPc = "returned"
    /\ taskPc = [fs |-> "done", web |-> "done", db |-> "failed"]
    /\ sessions = [fs |-> Session("fs"), web |-> Session("web")]
    /\ exit_stack = <<[kind |-> "transport", server |-> "fs"],
                      [kind |-> "transport", server |-> "web"],
                      [kind |-> "session", server |-> "fs"],
                      [kind |-> "session", server |-> "web"]>>
    /\ all_mcp_tools = Extend(fs_tools, web_tools)
    /\ tool_to_server_map =
          MergeOwners("web", Names(web_tools),
                      MergeOwners("fs", Names(fs_tools), EmptyDict))
    /\ log = (<<[msg |-> "connect_failed", server |-> "db", reason |-> "transport"],
                [msg |-> "tools", server |-> "fs", names |-> Names(fs_tools)],
                [msg |-> "tools", server |-> "web", names |-> Names(web_tools)]>>
              \o CollisionWarnings("web", Names(web_tools),
                                   MergeOwners("fs", Names(fs_tools), EmptyDict)))
             \o <<[msg |-> "connected_total", count |-> 2]>>
    /\ trace = [i \in 1..Len(exit_stack) |-> Entered(exit_stack[i])]

\* A client that has not connected, and the schema handed to it; or a
\* connected client with a catalog.
SchemaInit ==
    /\ \/ /\ server_configs = [s \in Servers |-> [transport |-> "stdio"]]
          /\ connPc = "idle"
          /\ taskPc = [s \in Servers |-> "none"]
          /\ sessions = EmptyDict
          /\ exit_stack = <<>>
          /\ all_mcp_tools = <<>>
          /\ tool_to_server_map = EmptyDict
          /\ log = <<>>
          /\ trace = <<>>
          /\ schema \in Schemas
       \/ /\ \E fs_tools \in ToolsOf("fs"), web_tools \in ToolsOf("web") :
                Catalogued(fs_tools, web_tools)
          /\ schema = NoneValue
    /\ TurnIdle
    /\ CleanupIdle
    /\ AppIdle
    /\ cleaned_schema = NoneValue
    /\ schemaPc = "idle"
    /\ ChatIdle

\* The call on the schema.
CleanSchema ==
    /\ schemaPc = "idle"
    /\ cleaned_schema' = CleanSchemaForGemini(schema)
    /\ schemaPc' = "returned"
    /\ UNCHANGED schema
    /\ UNCHANGED <<connVars, turnVars, cleanupVars, trace, appVars, chatVars>>

\* The call made again on what the earlier call returned.
CleanAgain ==
    /\ schemaPc = "returned"
    /\ cleaned_schema # NoneValue
    /\ schema' = cleaned_schema
    /\ cleaned_schema' = CleanSchemaForGemini(cleaned_schema)
    /\ schemaPc' = "returned_again"
    /\ UNCHANGED <<connVars, turnVars, cleanupVars, trace, appVars, chatVars>>

\* The first descriptor of a name in the catalog.
FirstOf(tools, name) ==
    tools[CHOOSE i \in 1..Len(tools) :
              /\ tools[i].name = name
              /\ \A j \in 1..(i - 1) : tools[j].name # name]

\* A cleaned schema that holds an enum value other than a string.  The
\* cleaner keeps int, float and bool enum values as they are.
RECURSIVE HoldsNonStringEnum(_)
HoldsNonStringEnum(cleaned) ==
    /\ IsInstance(cleaned, {"dict"})
    /\ \/ /\ "enum" \in DOMAIN cleaned.v
          /\ \E i \in 1..Len(cleaned.v["enum"].v) :
                ~IsInstance(cleaned.v["enum"].v[i], {"str"})
       \/ /\ "properties" \in DOMAIN cleaned.v
          /\ \E prop_name \in DOMAIN cleaned.v["properties"].v :
                HoldsNonStringEnum(cleaned.v["properties"].v[prop_name])
       \/ /\ "items" \in DOMAIN cleaned.v
          /\ HoldsNonStringEnum(cleaned.v["items"])

\* The names for which FunctionDeclaration(...) may raise: it validates the
\* parameters against its own schema type, whose enum is a list of strings.
Rejectable(tools) ==
    {name \in {tools[i].name : i \in 1..Len(tools)} :
        HoldsNonStringEnum(CleanSchemaForGemini(FirstOf(tools, name).inputSchema))}

\* The call of _mcp_tools_to_gemini_tools on the catalog.
Translate ==
    /\ schemaPc = "idle"
    /\ connPc = "returned"
    /\ \E rejected \in SUBSET Rejectable(all_mcp_tools) :
         gemini_tools' = McpToolsToGeminiTools(all_mcp_tools, rejected)
    /\ schemaPc' = "translated"
    /\ UNCHANGED <<schema, cleaned_schema>>
    /\ UNCHANGED <<turnPc, request, sent, sendSite, responses, calls,
                   tool_results, final_text_parts, result>>
    /\ UNCHANGED <<connVars, cleanupVars, trace, appVars, chatVars>>

SchemaNext ==
    \/ CleanSchema
    \/ CleanAgain
    \/ Translate

SpecSchema == SchemaInit /\ [][SchemaNext]_vars

----------------------------------------------------------------------------
(* Properties of process_query, checked under SpecTurn.                    *)

\* The function call the loop extracts from a response.
ExtractedCall(r) == r.candidates[1].content[1].parts[1].function_call[1]

\* A response whose first part is a non-empty text.
FirstPartIsText(r) ==
    /\ ~r.raised
    /\ r.candidates # <<>>
    /\ r.candidates[1].content # None
    /\ r.candidates[1].content[1].parts # <<>>
    /\ Truthy(r.candidates[1].content[1].parts[1].text)

\* The responses that request a tool without an owner.
UnownedCallIndexes ==
    {i \in CallIndexes(responses) :
        ExtractedCall(responses[i]).name \notin DOMAIN tool_to_server_map}

\* C1: a function call for a tool name without an owner is answered by the
\* next message to the model, a function response for that name saying
\* the tool was not found; no call_tool invocation is made for it, no
\* exception reaches the caller, and process_query goes on to wait for the
\* model's next response.
C1_ToolNotFoundRoundTrip ==
    /\ turnPc # "raised"
    /\ \A i \in UnownedCallIndexes :
         LET tool_name == ExtractedCall(responses[i]).name
         IN  /\ Len(sent) >= i + 1
             /\ sent[i + 1].kind = "function_response"
             /\ sent[i + 1].name = tool_name
             /\ sent[i + 1].content =
                  "Error: Tool '" \o tool_name \o "' not found or not configured correctly."
             /\ \A j \in 1..Len(calls) : calls[j].at # i
             /\ i = Len(responses) => turnPc = "awaiting_model"

\* A turn with sessions in which an unknown tool was requested and the model
\* went on to give the final answer.
C1_Witness ==
    /\ DOMAIN sessions # {}
    /\ turnPc = "returned"
    /\ result = "Done."
    /\ UnownedCallIndexes # {}

\* C2: a call_tool that raises is answered by an error function response
\* describing the exception, process_query then waits for the model's next
\* response, and a text answer T to it is returned as T.
C2_ToolFailureRoundTrip ==
    \A j \in 1..Len(tool_results) :
        tool_results[j].raised =>
            LET i == calls[j].at
            IN  /\ Len(sent) >= i + 1
                /\ sent[i + 1].kind = "function_response"
                /\ sent[i + 1].name = calls[j].name
                /\ sent[i + 1].content =
                     "Error: Exception during tool execution: "
                       \o tool_results[j].exception
                /\ Len(responses) = i => turnPc = "awaiting_model"
                /\ (Len(responses) > i /\ FirstPartIsText(responses[i + 1])) =>
                     /\ turnPc = "returned"
                     /\ result = responses[i + 1].candidates[1].content[1].parts[1].text[1]

\* A turn whose only tool call raised and which still returned the answer.
C2_Witness ==
    /\ Len(tool_results) = 1
    /\ tool_results[1].raised
    /\ turnPc = "returned"
    /\ result = "Done."

\* C5: when the model answers a turn with k responses, the first part of
\* each a function call for an owned tool (the call the loop extracts),
\* and then with a text T, process_query returns T and has invoked call_tool
\* exactly k times, the j-th time on the session of the owner of the j-th
\* requested tool, with that tool's name and the arguments of the request.
C5_EndToEndTurn ==
    LET n == Len(responses)
    IN  ( /\ n >= 1
          /\ FirstPartIsText(responses[n])
          /\ \A i \in 1..(n - 1) :
               /\ FirstPartIsCall(responses[i])
               /\ ExtractedCall(responses[i]).name \in DOMAIN tool_to_server_map )
        => /\ turnPc = "returned"
           /\ result = responses[n].candidates[1].content[1].parts[1].text[1]
           /\ Len(calls) = n - 1
           /\ \A j \in 1..(n - 1) :
                LET fc == ExtractedCall(responses[j])
                    owner == tool_to_server_map[fc.name]
                IN  /\ calls[j].at = j
                    /\ calls[j].server = owner
                    /\ calls[j].session = sessions[owner]
                    /\ calls[j].name = fc.name
                    /\ calls[j].arguments =
                         (IF fc.args = None THEN EmptyDict ELSE fc.args[1])

\* A turn of two calls, for tools of different servers, one with arguments,
\* answered "Done.".
C5_Witness ==
    /\ Len(responses) = 3
    /\ FirstPartIsText(responses[3])
    /\ turnPc = "returned"
    /\ Len(calls) = 2
    /\ calls[1].server # calls[2].server
    /\ \E j \in 1..2 : DOMAIN calls[j].arguments # {}
    /\ \A j \in 1..2 : ~tool_results[j].raised /\ ToolError(tool_results[j]) = ""

\* C6: process_query never lets an exception out, and what it returns is a
\* non-empty string (an answer or an error message).
C6_EveryTurnAnswered ==
    /\ turnPc # "raised"
    /\ turnPc = "returned" => result # ""

\* A response without candidates, without content or without parts.
EmptyResponse(r) ==
    /\ ~r.raised
    /\ \/ r.candidates = <<>>
       \/ r.candidates[1].content = None
       \/ r.candidates[1].content[1].parts = <<>>

\* C7: a response without candidates, content or parts, with no text
\* accumulated, makes process_query return the 'no valid response' error.
C7_NoValidResponse ==
    \A i \in 1..Len(responses) :
        (EmptyResponse(responses[i]) /\ final_text_parts = <<>>) =>
            /\ turnPc = "returned"
            /\ result = NoValidResponse

----------------------------------------------------------------------------
(* Properties of the connection phase, checked under Spec.                 *)

Range(seq) == {seq[i] : i \in 1..Len(seq)}

\* The servers whose coroutine ran to its end without an exception.
Connected == {s \in Servers : taskPc[s] = "done"}

\* The servers for which an attempt was started and ended in an exception.
FailedServers == {s \in Servers : taskPc[s] \in {"failed", "raised"}}

AllSettled == \A s \in Servers : Settled(taskPc[s])

\* The place in the log where the tool list of a connected server was
\* merged, and the names it listed.
MergedAt(s) == CHOOSE i \in 1..Len(log) : log[i].msg = "tools" /\ log[i].server = s

Listed(s) == log[MergedAt(s)].names

\* The connected servers exposing a tool name.
Exposers(name) == {s \in Connected : name \in Range(Listed(s))}

\* The collision warnings printed for a tool name.
CollisionsOf(name) ==
    {i \in 1..Len(log) : log[i].msg = "collision" /\ log[i].tool = name}

\* The failures printed for a server.
FailuresOf(s) ==
    {i \in 1..Len(log) : log[i].msg = "connect_failed" /\ log[i].server = s}

C4_CollisionPolicy ==
    \A name \in ToolNames :
        Cardinality(Exposers(name)) = 2 =>
            LET last == CHOOSE s \in Exposers(name) :
                            \A o \in Exposers(name) : MergedAt(o) <= MergedAt(s)
            IN  /\ name \in DOMAIN tool_to_server_map
                /\ tool_to_server_map[name] = last
                /\ Cardinality(CollisionsOf(name)) = 1

\* All three servers are connected; two of them expose "search", the one
\* later in the configuration having been merged first.
C4_Witness ==
    /\ connPc = "returned"
    /\ Connected = Servers
    /\ Cardinality(Exposers("search")) = 2
    /\ \E a, b \in Exposers("search") :
         ConfigIndex(a) < ConfigIndex(b) /\ MergedAt(b) < MergedAt(a)

\* C8: when every config was attempted and exactly one attempt failed,
\* there are N-1 sessions, one recorded failure, which names the failed
\* server, and all_mcp_tools holds the tools of the connected servers only.
C8_PartialConnectionTolerance ==
    ( /\ connPc = "returned"
      /\ \A s \in Servers : taskPc[s] \in {"done", "failed"}
      /\ Cardinality(FailedServers) = 1 )
    => /\ Cardinality(DOMAIN sessions) = Cardinality(Servers) - 1
       /\ \A s \in FailedServers : Cardinality(FailuresOf(s)) = 1
       /\ \A s \in Connected : FailuresOf(s) = {}
       /\ \A i \in 1..Len(all_mcp_tools) : all_mcp_tools[i].origin \in Connected

\* C9: once every attempt has settled, the keys of sessions and the owners
\* in the tool->server map are servers whose handshake and tool listing
\* both succeeded.
C9_RegistryOnlyFromSucceeded ==
    AllSettled =>
        /\ \A s \in DOMAIN sessions : s \in Connected
        /\ \A name \in DOMAIN tool_to_server_map :
             tool_to_server_map[name] \in Connected

\* C10: after connect_all_servers the owner of a tool name is the last, in
\* the order of the configuration, of the connected servers exposing it,
\* whatever the order in which the attempts completed.
C10_DeterministicCatalog ==
    connPc = "returned" =>
        \A name \in DOMAIN tool_to_server_map :
            /\ Exposers(name) # {}
            /\ tool_to_server_map[name] =
                 (CHOOSE s \in Exposers(name) :
                     \A o \in Exposers(name) : ConfigIndex(o) <= ConfigIndex(s))

----------------------------------------------------------------------------
(* Properties of cleanup, checked under SpecCleanup.                       *)

IsEnter(e) == e.op = "enter"

IsExit(e) == e.op = "exit"

\* The contexts entered so far, in the order they were acquired.
Acquired == [i \in 1..Len(SelectSeq(trace, IsEnter)) |->
               SelectSeq(trace, IsEnter)[i].context]

\* The contexts exited so far, in the order they were released.
Released == [i \in 1..Len(SelectSeq(trace, IsExit)) |->
               SelectSeq(trace, IsExit)[i].context]

Reverse(seq) == [i \in 1..Len(seq) |-> seq[Len(seq) + 1 - i]]

IsPrefix(a, b) == Len(a) <= Len(b) /\ a = SubSeq(b, 1, Len(a))

\* Every context was acquired before cleanup was first called.
AcquiredBeforeCleanup ==
    \A i, j \in 1..Len(trace) :
        trace[i].op = "cleanup" /\ trace[j].op = "enter" => j < i

\* A call of cleanup is over.
CleanupOver == cleanupPc \in {"returned", "raised"}

\* C11: when cleanup is called on what the connection attempts acquired,
\* the contexts are released in exactly the reverse of the order they were
\* acquired in, and once cleanup is over every one of them was released.
C11_ReleaseInReverseOrder ==
    (CleanupCalls > 0 /\ AcquiredBeforeCleanup) =>
        /\ IsPrefix(Released, Reverse(Acquired))
        /\ CleanupOver => Released = Reverse(Acquired)

\* Both servers opened their transport before either opened its session,
\* and cleanup released the four contexts.
C11_Witness ==
    /\ cleanupPc = "returned"
    /\ AcquiredBeforeCleanup
    /\ Len(Acquired) = 4
    /\ Acquired[1].kind = "transport" /\ Acquired[2].kind = "transport"
    /\ Acquired[3].server = Acquired[2].server
    /\ Released = Reverse(Acquired)

\* The position of a context in a sequence of contexts, 0 when absent.
Position(seq, context) ==
    IF \E i \in 1..Len(seq) : seq[i] = context
    THEN CHOOSE i \in 1..Len(seq) : seq[i] = context
    ELSE 0

\* C12: for every server whose transport cleanup has released, the session
\* opened over that transport, if one was acquired, was released earlier.
C12_SessionBeforeTransport ==
    (CleanupCalls > 0 /\ AcquiredBeforeCleanup) =>
        \A s \in Servers :
            LET transport == [kind |-> "transport", server |-> s]
                session == [kind |-> "session", server |-> s]
            IN  (Position(Released, transport) > 0 /\ Position(Acquired, session) > 0)
                    => /\ Position(Released, session) > 0
                       /\ Position(Released, session) < Position(Released, transport)

\* The attempts interleaved so that fs holds the outermost and the innermost
\* context: cleanup released the session of fs first and its transport last.
C12_Witness ==
    /\ CleanupOver
    /\ AcquiredBeforeCleanup
    /\ Len(Released) = 4
    /\ Released[1] = [kind |-> "session", server |-> "fs"]
    /\ Released[2] = [kind |-> "session", server |-> "web"]
    /\ Released[3] = [kind |-> "transport", server |-> "web"]
    /\ Released[4] = [kind |-> "transport", server |-> "fs"]

\* No context was released more than once.
ReleasedOnce ==
    \A i, j \in 1..Len(Released) : Released[i] = Released[j] => i = j

\* A call of cleanup that follows a call that is over, with nothing acquired
\* since, or a call on a client that never acquired anything.
RepeatedOrEmptyCleanup ==
    /\ Len(trace') > Len(trace)
    /\ trace'[Len(trace) + 1].op = "cleanup"
    /\ AcquiredBeforeCleanup
    /\ CleanupCalls > 0 \/ Acquired = <<>>

\* C13: a repeated call of cleanup, and a call of cleanup on a client that
\* never connected, returns without an error, releases nothing and leaves
\* the client as it was; no context is ever released twice.
C13_CleanupIdempotent ==
    [][/\ Len(trace') > Len(trace) => ReleasedOnce'
       /\ RepeatedOrEmptyCleanup =>
             /\ cleanupPc' = "returned"
             /\ Released' = Released
             /\ UNCHANGED <<sessions, exit_stack, all_mcp_tools,
                            tool_to_server_map>>]_vars

\* cleanup was called twice on a client that had acquired contexts: the
\* second call returned and the contexts were released by the first.
C13_Witness ==
    /\ CleanupCalls = 2
    /\ cleanupPc = "returned"
    /\ AcquiredBeforeCleanup
    /\ Len(Acquired) >= 2
    /\ Len(Released) = Len(Acquired)
    /\ trace[Len(trace)].op = "cleanup"

----------------------------------------------------------------------------
(* Further properties of process_query, checked under SpecTurn.            *)

\* An attachment that does not pass every validation step.
FailsValidation(path) ==
    \/ ~IsFile(path)
    \/ GuessType(path) = None
    \/ GuessType(path)[1] \notin {"image/png"}
    \/ ~ImageVerifies(path)

\* C14: a turn whose attachment fails a validation step has returned an
\* error string and has sent no message to the model.
C14_AttachmentValidationAborts ==
    (turnPc # "idle" /\ request.file_paths # None
       /\ FailsValidation(request.file_paths[1])) =>
        /\ turnPc = "returned"
        /\ sent = <<>>
        /\ result # ""

\* C15: every message of the turn, the first one included, was sent with
\* the translated tool list of the turn.
C15_ToolsWithEveryMessage ==
    \A i \in 1..Len(sent) : sent[i].tools = Some(gemini_tools)

\* The latest response of the model asks for a tool.
LatestIsCall == responses # <<>> /\ FirstPartIsCall(responses[Len(responses)])

\* C16: the loop has no limit of its own.  A response whose first part is a
\* function call never ends the turn, however many came before it: the
\* turn goes on to the tool or to the next response of the model, having
\* sent one message per response so far.  A turn that returned from the
\* loop did so on a response that raised, had no candidates, had no
\* content, or had a first part other than a function call.
C16_NoRoundTripLimit ==
    /\ LatestIsCall =>
          /\ turnPc \in {"awaiting_tool", "awaiting_model"}
          /\ turnPc = "awaiting_model" => Len(sent) = Len(responses) + 1
    /\ (turnPc = "returned" /\ responses # <<>>) => ~LatestIsCall

\* The model asked for a tool as often as it may, every call went to a
\* session, and the turn is waiting for the model once more.
C16_Witness ==
    /\ Cardinality(CallIndexes(responses)) = MaxRoundTrips
    /\ Len(calls) = MaxRoundTrips
    /\ LatestIsCall
    /\ turnPc = "awaiting_model"

\* C18: no step of a turn changes the session registry, the tool catalog
\* or the tool-to-server map.
C18_TurnReadOnly ==
    [][UNCHANGED <<sessions, all_mcp_tools, tool_to_server_map>>]_vars

\* A turn that met an unknown tool and a tool call that raised has
\* returned, and the registry and the catalog are those of TwoConnected.
C18_Witness ==
    /\ turnPc = "returned"
    /\ \E i \in 1..Len(sent) : sent[i] =
          FunctionResponseMessage("doesNotExist", ToolNotFoundContent("doesNotExist"))
    /\ \E i \in 1..Len(tool_results) : tool_results[i].raised
    /\ DOMAIN sessions = {"fs", "web"}
    /\ Len(all_mcp_tools) = 3
    /\ tool_to_server_map = [list_directory |-> "fs", search |-> "web"]

----------------------------------------------------------------------------
(* Further properties of the connection phase, checked under Spec.         *)

\* The position of the first diagnostic about a server with the message
\* given, 0 when there is none.
LoggedAt(msg, s) ==
    IF \E i \in 1..Len(log) : log[i].msg = msg /\ log[i].server = s
    THEN CHOOSE i \in 1..Len(log) : log[i].msg = msg /\ log[i].server = s
    ELSE 0

----------------------------------------------------------------------------
(* Properties of AppController, checked under SpecApp.                     *)

\* A connection attempt is under way: it can still add a session and
\* owners of tools.
PendingAttempt ==
    \E s \in Servers :
        taskPc[s] \in {"created", "await_transport", "await_session",
                       "await_initialize", "await_list_tools"}

\* The step enters process_query for the i-th coroutine.
TurnStarts(i) ==
    /\ mcp_client
    /\ queries[i].pc = "scheduled"
    /\ \/ queries'[i].pc = "awaiting_tool"
       \/ \E k \in (Len(response_queue) + 1)..Len(response_queue') :
             response_queue'[k] = Message("AI", queries[i].req)

\* process_query of the i-th coroutine has not returned.
TurnInFlight(i) == queries[i].pc = "awaiting_tool"

\* C17: no turn starts, and none is in flight, while a connection attempt
\* is still under way.
C17_ConnectBeforeTurns ==
    [][\A i \in 1..Len(queries) :
          (TurnStarts(i) \/ TurnInFlight(i)) => ~PendingAttempt]_vars

\* C19: no turn starts while another turn of the client is in flight.
C19_OneTurnInFlight ==
    [][\A i, j \in 1..Len(queries) :
          (TurnStarts(i) /\ j # i) => ~TurnInFlight(j)]_vars

\* An entry that names no supported transport, or lacks the command or
\* the url its transport needs.
Unusable(config) ==
    \/ TransportType(config) \notin {"stdio", "sse"}
    \/ TransportType(config) = "stdio" /\ Get(config, "command", "") = ""
    \/ TransportType(config) = "sse" /\ Get(config, "url", "") = ""

C22_TeardownCompletes == (cleanupPc = "closing") ~> (cleanupPc # "closing")

\* The error message a CallToolResult carries.
ReportedError(mcp_result) ==
    IF "error" \in DOMAIN mcp_result /\ mcp_result.error # None
    THEN mcp_result.error[1].message
    ELSE Join("\n", [i \in 1..Len(mcp_result.content) |-> mcp_result.content[i].text])

\* C30: a call_tool that returns a result with isError set is answered by
\* a function response for that tool that carries the error message of the
\* result, and process_query then waits for the model's next response.
C30_ProtocolErrorReported ==
    \A j \in 1..Len(tool_results) :
        (~tool_results[j].raised /\ tool_results[j].isError) =>
            LET i == calls[j].at
            IN  /\ Len(sent) >= i + 1
                /\ sent[i + 1].kind = "function_response"
                /\ sent[i + 1].name = calls[j].name
                /\ sent[i + 1].content =
                     "[Error executing tool '" \o calls[j].name \o "': "
                       \o ReportedError(tool_results[j]) \o "]"
                /\ Len(responses) = i => turnPc = "awaiting_model"

\* C24: once connect_all_servers has returned, all_mcp_tools holds at most
\* one descriptor for each tool name.
C24_CatalogDeduplicated ==
    connPc = "returned" =>
        \A i, j \in 1..Len(all_mcp_tools) :
            all_mcp_tools[i].name = all_mcp_tools[j].name => i = j

----------------------------------------------------------------------------
(* Properties of the life of a client, checked under SpecLife.             *)

\* A step of cleanup: its call, or the completion of an exit it awaits.
CleanupStep ==
    /\ cleanupPc = "closing" \/ cleanupPc' # cleanupPc
    /\ UNCHANGED <<connPc, taskPc, turnPc, sent>>
    /\ NewChats' = NewChats

\* C23: a step that takes a context off the exit stack, or an entry out of
\* sessions, is a step of cleanup: no step of connect_all_servers (also of
\* an attempt that fails with a transport or a session open), of
\* process_query or of start_new_chat does.
C23_OnlyCleanupDestroys ==
    [][(\/ ~IsPrefix(exit_stack, exit_stack')
        \/ ~(DOMAIN sessions \subseteq DOMAIN sessions')) => CleanupStep]_vars

\* A turn on a connected client that had a tool call raise has returned:
\* the session and its transport are still held.
C23_Witness ==
    /\ turnPc = "returned"
    /\ \E i \in 1..Len(tool_results) : tool_results[i].raised
    /\ CleanupCalls = 0
    /\ exit_stack = <<[kind |-> "transport", server |-> "fs"],
                      [kind |-> "session", server |-> "fs"]>>
    /\ DOMAIN sessions = {"fs"}

----------------------------------------------------------------------------
(* Properties of _clean_schema_for_gemini, checked under SpecSchema.       *)

\* C25: cleaning a schema that cleaning returned gives that schema back.
C25_CleaningIdempotent ==
    schemaPc = "returned_again" => cleaned_schema = schema

\* A schema with a nested object, a required list and a description was
\* cleaned, and the result was cleaned again.
C25_Witness ==
    /\ schemaPc = "returned_again"
    /\ {"properties", "required"} \subseteq DOMAIN schema.v
    /\ \E n \in DOMAIN schema.v.properties.v :
          {"properties", "required"} \subseteq DOMAIN schema.v.properties.v[n].v

\* C26: the call returns None exactly for an argument that is not a dict;
\* for a dict the result holds a type among the six valid ones, the
\* argument's own when that is valid, else object for an argument with a
\* properties key and string for one without.
C26_CleaningTotalAndTyped ==
    schemaPc = "returned" =>
        /\ cleaned_schema = NoneValue <=> schema.k # "dict"
        /\ schema.k = "dict" =>
              LET given == SchemaGet(schema, "type")
                  valid == given.k = "str" /\ given.v \in VALID_JSON_SCHEMA_TYPES
              IN  /\ cleaned_schema.k = "dict"
                  /\ "type" \in DOMAIN cleaned_schema.v
                  /\ cleaned_schema.v.type.k = "str"
                  /\ cleaned_schema.v.type.v \in VALID_JSON_SCHEMA_TYPES
                  /\ cleaned_schema.v.type =
                       (IF valid THEN given
                        ELSE IF "properties" \in DOMAIN schema.v THEN Str("object")
                        ELSE Str("string"))

\* A schema whose type is a string that is no valid type, and which has
\* properties, was cleaned to an object.
C26_Witness ==
    /\ schemaPc = "returned"
    /\ schema.k = "dict"
    /\ SchemaGet(schema, "type") = Str("null")
    /\ "properties" \in DOMAIN schema.v
    /\ cleaned_schema.v.type = Str("object")

\* The keys and the enum of a cleaned schema, at every level.
RECURSIVE OnlyGeminiFields(_)
OnlyGeminiFields(c) ==
    /\ DOMAIN c.v \subseteq
          {"type", "description", "properties", "required", "enum", "items"}
    /\ "enum" \in DOMAIN c.v =>
          /\ c.v.type.v \in {"string", "number", "integer"}
          /\ c.v.enum.k = "list"
          /\ c.v.enum.v # <<>>
          /\ \A i \in 1..Len(c.v.enum.v) :
                c.v.enum.v[i].k \in {"str", "int", "float", "bool"}
    /\ "properties" \in DOMAIN c.v =>
          \A n \in DOMAIN c.v.properties.v : OnlyGeminiFields(c.v.properties.v[n])
    /\ "items" \in DOMAIN c.v => OnlyGeminiFields(c.v.items)

\* C27: at every level of a returned schema the keys are among type,
\* description, properties, required, enum and items, and an enum is there
\* only with the type string, number or integer, as a non-empty list of
\* scalars.
C27_FieldSubset ==
    (schemaPc = "returned" /\ cleaned_schema # NoneValue) =>
        OnlyGeminiFields(cleaned_schema)

\* A schema with a title and an enum holding a None was cleaned: the title
\* is gone and the enum is shorter.
C27_Witness ==
    /\ schemaPc = "returned"
    /\ schema.k = "dict"
    /\ "title" \in DOMAIN schema.v
    /\ "enum" \in DOMAIN cleaned_schema.v
    /\ Len(cleaned_schema.v.enum.v) < Len(schema.v.enum.v)

\* The properties and the required list of a cleaned schema c, against the
\* dict d it was cleaned from, at every level.
RECURSIVE PropertiesAndRequired(_, _)
PropertiesAndRequired(d, c) ==
    /\ "properties" \in DOMAIN c.v =>
          /\ c.v.type = Str("object")
          /\ DOMAIN c.v.properties.v # {}
          /\ SchemaGet(d, "properties").k = "dict"
          /\ DOMAIN c.v.properties.v =
                {n \in DOMAIN d.v.properties.v :
                    CleanSchemaForGemini(d.v.properties.v[n]) # NoneValue}
          /\ \A n \in DOMAIN c.v.properties.v :
                /\ c.v.properties.v[n] = CleanSchemaForGemini(d.v.properties.v[n])
                /\ PropertiesAndRequired(d.v.properties.v[n], c.v.properties.v[n])
    /\ "required" \in DOMAIN c.v =>
          /\ "properties" \in DOMAIN c.v
          /\ c.v.required.k = "list"
          /\ c.v.required.v # <<>>
          /\ \A i \in 1..Len(c.v.required.v) :
                /\ c.v.required.v[i].k = "str"
                /\ c.v.required.v[i].v \in DOMAIN c.v.properties.v
    /\ "items" \in DOMAIN c.v => PropertiesAndRequired(d.v.items, c.v.items)

\* C28: at every level of a returned schema, properties is there only with
\* the type object, is not empty and holds exactly the properties of the
\* argument whose value cleaning does not return None for; required is
\* there only with properties, is not empty and names only keys of the
\* cleaned properties.
C28_PropertiesAndRequired ==
    (schemaPc = "returned" /\ cleaned_schema # NoneValue) =>
        PropertiesAndRequired(schema, cleaned_schema)

\* A schema with a property that is no dict, and with required names that
\* are no property, was cleaned: both were left out.
C28_Witness ==
    /\ schemaPc = "returned"
    /\ schema.k = "dict"
    /\ {"properties", "required"} \subseteq DOMAIN cleaned_schema.v
    /\ DOMAIN cleaned_schema.v.properties.v # DOMAIN schema.v.properties.v
    /\ Len(cleaned_schema.v.required.v) < Len(schema.v.required.v)

\* The declarations of the translated tool list.
Declared ==
    IF gemini_tools = <<>> THEN <<>> ELSE gemini_tools[1].function_declarations

\* C29: the translated tool list holds a declaration for every tool name
\* of the catalog, whatever its inputSchema is, and the declaration of a
\* tool whose inputSchema cleans to None has no parameters.
C29_UntranslatableSchemaDegrades ==
    schemaPc = "translated" =>
        \A i \in 1..Len(all_mcp_tools) :
            \E j \in 1..Len(Declared) :
                /\ Declared[j].name = all_mcp_tools[i].name
                /\ CleanSchemaForGemini(
                       FirstOf(all_mcp_tools, all_mcp_tools[i].name).inputSchema)
                     = NoneValue
                   => Declared[j].parameters = NoneValue

----------------------------------------------------------------------------
(* Further properties of process_query, checked under SpecTurn.            *)

\* A response whose first part carries neither a text nor a function call.
FirstPartIsOther(r) ==
    /\ ~r.raised
    /\ r.candidates # <<>>
    /\ r.candidates[1].content # None
    /\ r.candidates[1].content[1].parts # <<>>
    /\ ~Truthy(r.candidates[1].content[1].parts[1].text)
    /\ r.candidates[1].content[1].parts[1].function_call = None

\* C31: a response whose first part is neither text nor a function call
\* ends the turn: process_query returns the accumulated text if there is
\* some and the error string about the unexpected part otherwise, and
\* neither a tool nor the model is called for that response.
C31_UnrecognizedShapeEndsTurn ==
    \A i \in 1..Len(responses) :
        FirstPartIsOther(responses[i]) =>
            /\ i = Len(responses)
            /\ turnPc = "returned"
            /\ result = IF final_text_parts # <<>>
                        THEN Join("\n", final_text_parts)
                        ELSE UnexpectedResponse
            /\ Len(sent) = i
            /\ \A j \in 1..Len(calls) : calls[j].at # i

\* The model answered the result of a tool call with a part of another
\* kind, and the turn returned the error string.
C31_Witness ==
    /\ turnPc = "returned"
    /\ Len(calls) = 1
    /\ Len(responses) = 2
    /\ FirstPartIsOther(responses[2])
    /\ result = UnexpectedResponse

----------------------------------------------------------------------------
(* Further properties of the translated tool list, under SpecSchema.       *)

\* C32: the declaration sent to the model for a tool name is made from the
\* descriptor of the server that owns the name in the tool-to-server map.
C32_DeclaredIsDispatched ==
    schemaPc = "translated" =>
        \A j \in 1..Len(Declared) :
            Declared[j].origin = tool_to_server_map[Declared[j].name]

----------------------------------------------------------------------------
(* Properties of the function responses of a turn, under SpecTurn.         *)

\* The function responses the model took: send_message returned for them.
DeliveredResponses ==
    {k \in 1..Len(sent) :
        /\ sent[k].kind = "function_response"
        /\ k <= Len(responses)
        /\ ~responses[k].raised}

\* C33: every function call the loop extracts is answered by exactly one
\* function response with its tool name.  The message after a response
\* with a function call is the function response for it unless the turn
\* has ended, and every function response the model took is the one that
\* follows the function call it answers.
C33_OneResponsePerCall ==
    /\ \A i \in CallIndexes(responses) :
          /\ turnPc = "awaiting_model" => Len(sent) >= i + 1
          /\ Len(sent) >= i + 1 =>
                /\ sent[i + 1].kind = "function_response"
                /\ sent[i + 1].name = ExtractedCall(responses[i]).name
    /\ \A k \in DeliveredResponses : (k - 1) \in CallIndexes(responses)

\* The parts of a response ("no parts" for one that raised or is empty).
PartsOf(r) ==
    IF r.raised \/ r.candidates = <<>> THEN <<>>
    ELSE IF r.candidates[1].content = None THEN <<>>
    ELSE r.candidates[1].content[1].parts

\* The function call of part p of response i went to call_tool, or was
\* answered by the error function response that follows the response.
Handled(i, p) ==
    LET function_call == PartsOf(responses[i])[p].function_call[1]
    IN  \/ \E j \in 1..Len(calls) :
              /\ calls[j].at = i
              /\ calls[j].name = function_call.name
              /\ calls[j].arguments = ToolArgsDict(function_call)
        \/ /\ Len(sent) >= i + 1
           /\ sent[i + 1].kind = "function_response"
           /\ sent[i + 1].name = function_call.name
           /\ \A j \in 1..Len(calls) : calls[j].at # i

\* C34: once the turn has ended or the next request has gone to the
\* model, every function-call part of a response, at whatever position
\* and whatever the other parts carry, went to its session or was
\* answered with an error function response.
C34_EveryCallPartHandled ==
    \A i \in 1..Len(responses) :
        \A p \in 1..Len(PartsOf(responses[i])) :
            (/\ PartsOf(responses[i])[p].function_call # None
             /\ turnPc = "returned" \/ Len(sent) >= i + 1)
                => Handled(i, p)

----------------------------------------------------------------------------
(* Properties of the catalog and the registry, under SpecLife.             *)

----------------------------------------------------------------------------
(* Properties of a turn after cleanup, under SpecReuse.                    *)

\* The session contexts released so far.
ReleasedSessions ==
    {Released[i].server : i \in {j \in 1..Len(Released) :
                                    Released[j].kind = "session"}}

\* C37: a process_query issued after cleanup has completed never invokes
\* call_tool on a session that cleanup released.
C37_NoCallOnReleasedSession ==
    \A j \in 1..Len(calls) : calls[j].server \notin ReleasedSessions

----------------------------------------------------------------------------
(* Properties of the text accumulated by a turn, under SpecTurn.           *)

\* The latest response of the model.
Latest == responses[Len(responses)]

\* C36: no text is accumulated while the loop runs.  final_text_parts is
\* empty in every state in which the turn has not returned; a turn that
\* returned with text holds exactly the text of the first part of the
\* latest response and returns it; and a response without content or with
\* an unexpected first part ends the turn with an error string, never
\* with accumulated text.
C36_NoTextAccumulated ==
    /\ turnPc # "returned" => final_text_parts = <<>>
    /\ final_text_parts # <<>> =>
          /\ FirstPartIsText(Latest)
          /\ final_text_parts = <<PartsOf(Latest)[1].text[1]>>
          /\ result = PartsOf(Latest)[1].text[1]
    /\ (turnPc = "returned" /\ responses # <<>> /\ ~Latest.raised
          /\ Latest.candidates # <<>> /\ ~FirstPartIsText(Latest)
          /\ DeliveryError(Latest, sendSite) = "")
         => result \in {NoValidResponse, UnexpectedResponse}

\* After a tool call the model gave its answer, which the turn returned.
C36_Witness ==
    /\ turnPc = "returned"
    /\ Len(calls) = 1
    /\ Len(responses) = 2
    /\ final_text_parts = <<"Done.">>
    /\ result = "Done."

----------------------------------------------------------------------------
(* Properties of the messages put for the GUI, under SpecApp.              *)

\* The positions on the response queue of the messages of a request with
\* one of the texts given.
Positions(req, texts) ==
    {k \in 1..Len(response_queue) :
        response_queue[k].req = req /\ response_queue[k].text \in texts}

\* Nothing of a request is left to run: its STT thread has ended and the
\* coroutine scheduled for it, if any, is over.
RequestOver(req) ==
    /\ req \notin stt_threads
    /\ \A i \in 1..Len(queries) : queries[i].req = req => queries[i].pc = "done"

C39_NewChatReportsReplacement ==
    \A i \in 1..Len(new_chats) :
        /\ new_chats[i].returned =>
              /\ new_chats[i].after # new_chats[i].before
              /\ new_chats[i].after.history = "empty"
              /\ new_chats[i].is_first_request
        /\ ~new_chats[i].returned => new_chats[i].after = new_chats[i].before
====
